---------------------------- MODULE Spec2Model ----------------------------
(***************************************************************************)
(* ExigeOS kernel core: PC speaker / PIT timing driver (sound.c) and the   *)
(* VGA text console (vga.c), modelled as state machines over the hardware  *)
(* ports they touch.                                                       *)
(*                                                                         *)
(* Characters are their ASCII codes, C strings are sequences of non-zero   *)
(* codes (the terminating NUL is implicit: At(s, Len(s)) = 0).             *)
(* The program is single-threaded: `stack` holds the current program       *)
(* position followed by the pending return positions; <<>> is "idle",      *)
(* i.e. control is in the caller of the driver.                            *)
(***************************************************************************)
EXTENDS Integers, Sequences, FiniteSets, TLC

VARIABLES
    stack,        \* program position and pending continuations
    top,          \* the driver entry point called last ("none" before any)
    str,          \* sound_play_sequence: the argument text
    pos,          \* sound_play_sequence: offset of `str` (0-based)
    token,        \* sound_play_sequence: char token[8]
    ti,           \* sound_play_sequence: int ti
    name,         \* sound_note: the argument
    freq_hz,      \* sound_play: argument
    duration_ms,  \* sound_play: argument
    divisor,      \* sound_play: uint16_t divisor
    tmp,          \* sound_play / sound_stop: uint8_t tmp
    ms,           \* delay_ms: argument
    ticks_needed, \* delay_ms: uint32_t ticks_needed
    prev,         \* delay_ms: uint16_t prev
    elapsed,      \* delay_ms: uint32_t elapsed
    lo,           \* pit0_read: uint8_t lo
    hi,           \* pit0_read: uint8_t hi
    port61,       \* hardware: System Control Port B
    pit0,         \* hardware: PIT channel 0 free-running down-counter
    ticks,        \* history: the ticks gone by since the first sample of the
                  \*   current delay_ms, a Wide number (exact below 2^33,
                  \*   kept in 2^32 .. 2^33 - 1 beyond)
    latch,        \* hardware: PIT channel 0 output latch (-1: nothing latched)
    io,           \* history: the last port operation of the current call
    ports,        \* history: port operations of the current top-level call
                  \*   (all but pit0_read's, plus delay_ms entry/return marks)
    calls,        \* history: sound_note / sound_play calls of the current call
    playMark,     \* history: Len(ports) when the current sound_play began
    VGA_MEM,      \* vga.c: the 80x25 cell buffer at 0xB8000, as rows of cells;
                  \*   VGA_MEM[r * 80 + c] is VGA_MEM[r + 1][c + 1] here
    cursor_row,   \* vga.c: static int cursor_row
    cursor_col,   \* vga.c: static int cursor_col
    current_color,\* vga.c: static uint8_t current_color
    crtc,         \* hardware: CRT controller index register and cursor registers
    oob,          \* history: some cell write fell outside the buffer
    vgaPc,        \* vga.c: "idle", or "flash_hold" inside vga_flash
    vgaLast,      \* history: the console function called last, with its arguments
    flashSaved,   \* history: inside vga_flash, the cell buffer as the call found it
    vgaOps,       \* number of console operations called so far
    uart,         \* vga_rpi3.c: the PL011 registers CR, ICR, IBRD, FBRD, LCRH
    tx,           \* history: the bytes written to the UART data register by
                  \*   the console function called last
    term,         \* the serial terminal at the other end of the UART
    platform,     \* the build: "x86" (keyboard.c, vga.c) or "rpi3" (*_rpi3.c)
    kbPc,         \* keyboard_readline: "idle", "getchar" or "got"
    kbBuf,        \* keyboard_readline: the caller's buffer, buf[0 .. max-1]
    kbMax,        \* keyboard_readline: int max
    kbLen,        \* keyboard_readline: int len
    kbChar,       \* keyboard_readline: char c
    kbRet,        \* keyboard_readline: the value returned (-1 before the return)
    kbOob,        \* history: some write to buf fell outside buf[0 .. max-1]
    kbTyped,      \* history: the characters keyboard_getchar returned in this call
    kbEcho,       \* history: the characters this call passed to vga_putchar
    kbStart,      \* history: the cursor when keyboard_readline was called
    kbIn,         \* history: the last two port reads of keyboard.c, oldest first
    cmd,          \* shell.c: the command dispatched last ("none" before any)
    cmdPc,        \* shell.c: "idle", or the position in cmd_date / cmd_time:
                  \*   "index", "wait", "data" (inside cmos_read) or "print"
    cmdRuns,      \* number of commands dispatched so far
    rtcVals,      \* cmd_date / cmd_time: the locals assigned so far, in order
    rtcReg,       \* hardware: the register selected in the clock chip
    rtcIo,        \* history: the port operations of the current command
    cmdOut,       \* history: the characters the current command has printed
    shPc,         \* shell.c: position in kernel_main / shell_run: "boot",
                  \*   "prompt", "read", "dispatch", "cmd" (inside a command)
                  \*   or "reset" (inside cmd_reboot)
    shBuf,        \* shell_run: char buf[BUF_SIZE], the line read last
    bootPc,       \* boot_x86.asm: "off", the directive the assembler is at
                  \*   ("align", "magic", "flags", "checksum", "bss"), "loaded",
                  \*   or the instruction of _start the CPU is at ("mov",
                  \*   "push1", "push2", "call", "kernel_main", "cli", "hlt",
                  \*   "halted", "jmp"); "past" is the address after jmp .hang
    image,        \* boot_x86.asm: the bytes of the image up to the end of
                  \*   section .multiboot
    stack_top,    \* boot_x86.asm: the address of the label stack_top
    esp,          \* hardware: the stack pointer
    intr,         \* hardware: EFLAGS.IF
    bootMem,      \* history: the stack writes of _start, <<address, value>>
    mmPc,         \* vga_rpi3.c / keyboard_rpi3.c: "idle", or the position in
                  \*   uart_putchar ("tx_poll", "tx_write") or in
                  \*   keyboard_getchar ("rx_poll", "rx_read")
    mmChar,       \* uart_putchar: char c
    mmRet,        \* keyboard_getchar: the value returned (-1 before the return)
    mmOps         \* history: the register accesses of the current call

soundVars == <<stack, top, str, pos, token, ti, name, freq_hz, duration_ms,
               divisor, tmp, ms, ticks_needed, prev, elapsed, lo, hi,
               port61, pit0, ticks, latch, io, ports, calls, playMark>>

vgaVars == <<VGA_MEM, cursor_row, cursor_col, current_color, crtc, oob,
             vgaPc, vgaLast, flashSaved, vgaOps>>

rpiVars == <<uart, tx, term>>

kbVars == <<platform, kbPc, kbBuf, kbMax, kbLen, kbChar, kbRet, kbOob, kbTyped,
            kbEcho, kbStart, kbIn>>

bootVars == <<bootPc, image, stack_top, esp, intr, bootMem>>

mmioVars == <<mmPc, mmChar, mmRet, mmOps>>

shVars == <<cmd, cmdPc, cmdRuns, rtcVals, rtcReg, rtcIo, cmdOut, shPc, shBuf,
            bootVars, mmioVars>>

vars == <<soundVars, vgaVars, rpiVars, kbVars, shVars>>

-----------------------------------------------------------------------------
(* Bounds of the explored inputs.                                          *)

\* delay_ms is explored for every duration 0..MaxDelayMs
MaxDelayMs == 1
\* ... and for one duration whose tick target does not fit 32 bits
WrapMs == 3600141
\* texts given to sound_play_sequence: every text over SeqAlphabet up to this length
MaxTextLen == 3
\* console operations called in one run
MaxVgaOps == 3
\* characters keyboard_getchar returns during one keyboard_readline
MaxKeys == 6

\* calls of the console functions that print numbers, in one run
MaxPrints == 1

\* commands dispatched in one run
MaxQueries == 2
\* commands dispatched in one run while one register takes every value
MaxSweeps == 1
\* lines read by the shell
MaxLines == 1
\* section .multiboot begins at every offset 0..MaxPad of the image
MaxPad == 5
\* the flag register shows a full or an empty FIFO for MaxPolls reads at most
MaxPolls == 2
\* the long delay is explored from the last HourTail samples before the
\* accumulator passes 2^32
HourTail == 3

\* the clock chip's index and data ports, and the port io_wait writes to
CMOS_INDEX == 112
CMOS_DATA == 113
POST_PORT == 128

\* the PS/2 controller's ports
KB_DATA == 96
KB_STATUS == 100

-----------------------------------------------------------------------------
(* Program constants.                                                      *)

PIT_BASE_FREQ == 1193180
TICKS_PER_MS  == 1193
NOTE_MS       == 450
GAP_MS        == 80
TOKEN_MAX     == 7
PIT_CMD       == 67      \* port 0x43
PIT_CH0       == 64      \* port 0x40
PIT_CH2       == 66      \* port 0x42
SPKR_PORT     == 97      \* port 0x61
CH2_MODE3     == 182     \* control word 0xB6

VGA_WIDTH     == 80
VGA_HEIGHT    == 25
CRT_INDEX     == 980     \* port 0x3D4
CRT_DATA      == 981     \* port 0x3D5
DEFAULT_COLOR == 7       \* 0x07, light grey on black

U16 == 65536

\* static const note_t notes[]
notes ==
    << [name |-> <<100, 111>>,      freq |-> 262],    \* "do"
       [name |-> <<114, 101>>,      freq |-> 294],    \* "re"
       [name |-> <<109, 105>>,      freq |-> 330],    \* "mi"
       [name |-> <<102, 97>>,       freq |-> 349],    \* "fa"
       [name |-> <<115, 111, 108>>, freq |-> 392],    \* "sol"
       [name |-> <<108, 97>>,       freq |-> 440],    \* "la"
       [name |-> <<115, 105>>,      freq |-> 494] >>  \* "si"

-----------------------------------------------------------------------------
(* Pure helpers.                                                           *)

\* *(s + i) of a NUL-terminated string
At(s, i) == IF i < Len(s) THEN s[i + 1] ELSE 0

\* (mutant) the final comparison dropped: a prefix of an entry matches
RECURSIVE StrPrefixFrom(_, _, _)
StrPrefixFrom(a, b, i) ==
    IF At(a, i) # 0 /\ At(b, i) # 0
    THEN IF At(a, i) # At(b, i) THEN FALSE ELSE StrPrefixFrom(a, b, i + 1)
    ELSE At(a, i) = 0
str_eq_sound_prefix(a, b) == StrPrefixFrom(a, b, 0)

RECURSIVE StrEqFrom(_, _, _)
StrEqFrom(a, b, i) ==
    IF At(a, i) # 0 /\ At(b, i) # 0
    THEN IF At(a, i) # At(b, i) THEN FALSE ELSE StrEqFrom(a, b, i + 1)
    ELSE At(a, i) = At(b, i)

str_eq_sound(a, b) == StrEqFrom(a, b, 0)

\* sound_note's table scan: index of the first matching entry, 0 if none
RECURSIVE NoteFrom(_, _)
NoteFrom(n, i) ==
    IF i > Len(notes) THEN 0
    ELSE IF str_eq_sound(n, notes[i].name) THEN i
    ELSE NoteFrom(n, i + 1)

NoteIndex(n) == NoteFrom(n, 1)

\* the C string held in a char buffer: the bytes before the first NUL
RECURSIVE BufStrFrom(_, _)
BufStrFrom(buf, i) ==
    IF i > TOKEN_MAX \/ buf[i] = 0 THEN <<>>
    ELSE <<buf[i]>> \o BufStrFrom(buf, i + 1)

BufStr(buf) == BufStrFrom(buf, 0)

\* c == ' ' || c == '\0'
IsDelim(c) == c = 32 \/ c = 0

\* A uint32_t is kept as its two 16-bit halves [hi, lo] (the checker's
\* integers are 32-bit signed).  A Wide number has the same shape with an
\* unbounded hi: it is the mathematical value hi * 65536 + lo.
U32Of(h, l) == [hi |-> h, lo |-> l]
Zero32 == U32Of(0, 0)
Less(a, b) == a.hi < b.hi \/ (a.hi = b.hi /\ a.lo < b.lo)
Trunc32(w) == U32Of(w.hi % U16, w.lo)

\* the mathematical product m * 1193, for 0 <= m < 2^31
WideTicks(m) ==
    LET low == (m % U16) * TICKS_PER_MS
    IN  U32Of((m \div U16) * TICKS_PER_MS + low \div U16, low % U16)

\* delay_ms: uint32_t ticks_needed = ms * 1193UL  (unsigned long is 32 bits, -m32)
TicksNeeded(m) == Trunc32(WideTicks(m))

\* delay_ms: elapsed += delta, in uint32_t
Accumulate(e, d) ==
    Trunc32(U32Of(e.hi + (e.lo + d) \div U16, (e.lo + d) % U16))

\* (mutant) the wrap is not handled: the distance between the two samples
DeltaNoWrap(p, c) ==
    IF p >= c THEN p - c ELSE c - p

\* delay_ms: the per-iteration delta, a uint16_t
Delta(p, c) ==
    IF p >= c THEN p - c ELSE (p + (U16 - c)) % U16

\* sound_play: uint16_t divisor = (uint16_t)(PIT_BASE_FREQ / freq_hz)
Divisor(f) == (PIT_BASE_FREQ \div f) % U16

\* tmp | 0x03
GateOn(t) == (t \div 4) * 4 + 3

\* (mutant) the port is written without the value read from it
GateOffBlind(t) == 0

\* (mutant) tmp & ~0x01: the gate of timer 2 only
GateOffTimerOnly(t) == (t \div 2) * 2

\* tmp & ~0x03, stored in a byte
GateOff(t) == (t \div 4) * 4

\* (uint16_t)((uint16_t)hi << 8 | lo)
Word(h, l) == h * 256 + l

-----------------------------------------------------------------------------
(* History bookkeeping.                                                    *)

Op(o, p, v) == [op |-> o, port |-> p, val |-> v]
NoIo == [op |-> "none", port |-> 0, val |-> 0, n |-> 0]
IoOf(o, p, v) == [op |-> o, port |-> p, val |-> v, n |-> 1 - io.n]

PlayCall(f, d) == [fn |-> "sound_play", name |-> <<>>, freq |-> f, dur |-> d]
NoteCall(n) == [fn |-> "sound_note", name |-> n, freq |-> 0, dur |-> 0]

Idle == stack = <<>>
At_(l) == stack # <<>> /\ Head(stack) = l
Goto(l) == stack' = <<l>> \o Tail(stack)
Return == stack' = Tail(stack)
Push(ls) == stack' = ls \o Tail(stack)

-----------------------------------------------------------------------------
(* Hardware.                                                               *)

\* what the chip does with a byte written to the PIT command port 0x43:
\* bits 7-6 select the channel, bits 5-4 = 00 is the counter-latch command
\* (anything else programs that channel's mode and leaves the latch alone)
PitCommand(v, count) ==
    latch' = IF v \div 64 = 0 /\ (v \div 16) % 4 = 0 THEN count ELSE latch

\* counter values the free-running channel 0 may show when a call begins
PitStarts == {0, 5, 40000}
\* values of port 0x61 at power-on
Port61Inits == {0, 48, 255}

-----------------------------------------------------------------------------
(* Frames: variables each group of actions leaves alone.                   *)

\* what no step inside the sound driver changes: the entry point that was
\* called, and the console
callFrame == <<top, vgaVars, rpiVars, kbVars, shVars>>
seqFrame  == <<str, pos, token, ti>>
playFrame == <<freq_hz, duration_ms, divisor>>
dlyFrame  == <<ms, ticks_needed, prev, elapsed>>
pitFrame  == <<lo, hi>>
hwFrame   == <<port61, pit0, ticks, latch>>
histFrame == <<io, ports, calls, playMark>>

-----------------------------------------------------------------------------
(* pit0_read()                                                             *)

\* d more ticks have gone by
TickOn(w, d) ==
    LET l == w.lo + d
        h == w.hi + l \div U16
    IN  U32Of(IF h >= 2 * U16 THEN h - U16 ELSE h, l % U16)

\* (mutant) the command programs channel 0 (0x34: lobyte/hibyte, mode 2)
PitLatchReload(Steps) ==
    /\ At_("pit_latch")
    /\ \E d \in Steps :
         /\ pit0' = (pit0 - d) % U16
         /\ latch' = (pit0 - d) % U16
         /\ ticks' = IF stack[2] = "dly_first" THEN Zero32 ELSE TickOn(ticks, d)
    /\ io' = IoOf("out", PIT_CMD, 52)
    /\ Goto("pit_lo")
    /\ UNCHANGED <<callFrame, seqFrame, name, playFrame, tmp, dlyFrame, pitFrame,
                   port61, ports, calls, playMark>>

\* outb(0x43, 0x00); the counter has run on by d ticks since the last sample
PitLatch(Steps) ==
    /\ At_("pit_latch")
    /\ \E d \in Steps :
         /\ pit0' = (pit0 - d) % U16
         /\ PitCommand(0, (pit0 - d) % U16)
         /\ ticks' = IF stack[2] = "dly_first" THEN Zero32 ELSE TickOn(ticks, d)
    /\ io' = IoOf("out", PIT_CMD, 0)
    /\ Goto("pit_lo")
    /\ UNCHANGED <<callFrame, seqFrame, name, playFrame, tmp, dlyFrame, pitFrame,
                   port61, ports, calls, playMark>>

\* uint8_t lo = inb(0x40)
PitLo ==
    /\ At_("pit_lo")
    /\ lo' = latch % 256
    /\ io' = IoOf("in", PIT_CH0, latch % 256)
    /\ Goto("pit_hi")
    /\ UNCHANGED <<callFrame, seqFrame, name, playFrame, tmp, dlyFrame, hi,
                   hwFrame, ports, calls, playMark>>

\* uint8_t hi = inb(0x40); return hi << 8 | lo
\* (the chip releases the latch once both bytes are read)
PitHi ==
    /\ At_("pit_hi")
    /\ hi' = latch \div 256
    /\ io' = IoOf("in", PIT_CH0, latch \div 256)
    /\ latch' = -1
    /\ Return
    /\ UNCHANGED <<callFrame, seqFrame, name, playFrame, tmp, dlyFrame, lo,
                   port61, pit0, ticks, ports, calls, playMark>>

-----------------------------------------------------------------------------
(* delay_ms(ms)                                                            *)

\* entry: ticks_needed = ms * 1193UL; prev = pit0_read() is called
DlyEntry ==
    /\ At_("dly_entry")
    /\ ms' = duration_ms
    /\ ticks_needed' = TicksNeeded(duration_ms)
    /\ ports' = Append(ports, Op("delay", 0, duration_ms))
    /\ Push(<<"pit_latch", "dly_first">>)
    /\ UNCHANGED <<callFrame, seqFrame, name, playFrame, tmp, prev, elapsed,
                   pitFrame, hwFrame, io, calls, playMark>>

\* prev = <sample>; elapsed = 0
DlyFirst ==
    /\ At_("dly_first")
    /\ prev' = Word(hi, lo)
    /\ elapsed' = Zero32
    /\ Goto("dly_test")
    /\ UNCHANGED <<callFrame, seqFrame, name, playFrame, tmp, ms, ticks_needed,
                   pitFrame, hwFrame, histFrame>>

\* while (elapsed < ticks_needed): curr = pit0_read() is called
DlyPoll ==
    /\ At_("dly_test")
    /\ Less(elapsed, ticks_needed)
    /\ Push(<<"pit_latch", "dly_acc">>)
    /\ UNCHANGED <<callFrame, seqFrame, name, playFrame, tmp, dlyFrame,
                   pitFrame, hwFrame, histFrame>>

\* delta = ...; elapsed += delta; prev = curr
DlyAcc ==
    /\ At_("dly_acc")
    /\ elapsed' = Accumulate(elapsed, Delta(prev, Word(hi, lo)))
    /\ prev' = Word(hi, lo)
    /\ Goto("dly_test")
    /\ UNCHANGED <<callFrame, seqFrame, name, playFrame, tmp, ms, ticks_needed,
                   pitFrame, hwFrame, histFrame>>

\* the loop condition fails: delay_ms returns
DlyDone ==
    /\ At_("dly_test")
    /\ ~Less(elapsed, ticks_needed)
    /\ ports' = Append(ports, Op("delay_ret", 0, ms))
    /\ Return
    /\ UNCHANGED <<callFrame, seqFrame, name, playFrame, tmp, dlyFrame,
                   pitFrame, hwFrame, io, calls, playMark>>

-----------------------------------------------------------------------------
(* sound_stop()                                                            *)

\* uint8_t tmp = inb(0x61)
StopIn ==
    /\ At_("stop_in")
    /\ tmp' = port61
    /\ io' = IoOf("in", SPKR_PORT, port61)
    /\ ports' = Append(ports, Op("in", SPKR_PORT, port61))
    /\ Goto("stop_out")
    /\ UNCHANGED <<callFrame, seqFrame, name, playFrame, dlyFrame, pitFrame,
                   hwFrame, calls, playMark>>

\* outb(0x61, tmp & ~0x03)
StopOut ==
    /\ At_("stop_out")
    /\ port61' = GateOff(tmp)
    /\ io' = IoOf("out", SPKR_PORT, GateOff(tmp))
    /\ ports' = Append(ports, Op("out", SPKR_PORT, GateOff(tmp)))
    /\ Return
    /\ UNCHANGED <<callFrame, seqFrame, name, playFrame, tmp, dlyFrame, pitFrame,
                   pit0, ticks, latch, calls, playMark>>

-----------------------------------------------------------------------------
(* sound_play(freq_hz, duration_ms) and pit_set_divisor(divisor)           *)

\* (mutant) the rest delays first and stops the speaker afterwards
PlayRestDelayFirst ==
    /\ At_("play_entry")
    /\ freq_hz = 0
    /\ calls' = Append(calls, PlayCall(freq_hz, duration_ms))
    /\ playMark' = Len(ports)
    /\ Push(<<"dly_entry", "stop_in", "play_ret">>)
    /\ UNCHANGED <<callFrame, seqFrame, name, playFrame, tmp, dlyFrame, pitFrame,
                   hwFrame, io, ports>>

\* if (freq_hz == 0) { sound_stop(); delay_ms(duration_ms); return; }
PlayRest ==
    /\ At_("play_entry")
    /\ freq_hz = 0
    /\ calls' = Append(calls, PlayCall(freq_hz, duration_ms))
    /\ playMark' = Len(ports)
    /\ Push(<<"stop_in", "dly_entry", "play_ret">>)
    /\ UNCHANGED <<callFrame, seqFrame, name, playFrame, tmp, dlyFrame, pitFrame,
                   hwFrame, io, ports>>

\* divisor = (uint16_t)(PIT_BASE_FREQ / freq_hz); pit_set_divisor(divisor)
PlayTone ==
    /\ At_("play_entry")
    /\ freq_hz # 0
    /\ divisor' = Divisor(freq_hz)
    /\ calls' = Append(calls, PlayCall(freq_hz, duration_ms))
    /\ playMark' = Len(ports)
    /\ Push(<<"psd_ctl", "play_gate_in">>)
    /\ UNCHANGED <<callFrame, seqFrame, name, freq_hz, duration_ms, tmp, dlyFrame,
                   pitFrame, hwFrame, io, ports>>

\* outb(0x43, 0xB6)
PsdCtl ==
    /\ At_("psd_ctl")
    /\ PitCommand(CH2_MODE3, pit0)
    /\ io' = IoOf("out", PIT_CMD, CH2_MODE3)
    /\ ports' = Append(ports, Op("out", PIT_CMD, CH2_MODE3))
    /\ Goto("psd_lo")
    /\ UNCHANGED <<callFrame, seqFrame, name, playFrame, tmp, dlyFrame, pitFrame,
                   port61, pit0, ticks, calls, playMark>>

\* outb(0x42, (uint8_t)(divisor & 0xFF))
PsdLo ==
    /\ At_("psd_lo")
    /\ io' = IoOf("out", PIT_CH2, divisor % 256)
    /\ ports' = Append(ports, Op("out", PIT_CH2, divisor % 256))
    /\ Goto("psd_hi")
    /\ UNCHANGED <<callFrame, seqFrame, name, playFrame, tmp, dlyFrame, pitFrame,
                   hwFrame, calls, playMark>>

\* outb(0x42, (uint8_t)(divisor >> 8)); pit_set_divisor returns
PsdHi ==
    /\ At_("psd_hi")
    /\ io' = IoOf("out", PIT_CH2, divisor \div 256)
    /\ ports' = Append(ports, Op("out", PIT_CH2, divisor \div 256))
    /\ Return
    /\ UNCHANGED <<callFrame, seqFrame, name, playFrame, tmp, dlyFrame, pitFrame,
                   hwFrame, calls, playMark>>

\* uint8_t tmp = inb(0x61)
PlayGateIn ==
    /\ At_("play_gate_in")
    /\ tmp' = port61
    /\ io' = IoOf("in", SPKR_PORT, port61)
    /\ ports' = Append(ports, Op("in", SPKR_PORT, port61))
    /\ Goto("play_gate_out")
    /\ UNCHANGED <<callFrame, seqFrame, name, playFrame, dlyFrame, pitFrame,
                   hwFrame, calls, playMark>>

\* (mutant) the gate is closed before the delay instead of after it
PlayGateOutStopFirst ==
    /\ At_("play_gate_out")
    /\ port61' = GateOn(tmp)
    /\ io' = IoOf("out", SPKR_PORT, GateOn(tmp))
    /\ ports' = Append(ports, Op("out", SPKR_PORT, GateOn(tmp)))
    /\ Push(<<"stop_in", "dly_entry", "play_ret">>)
    /\ UNCHANGED <<callFrame, seqFrame, name, playFrame, tmp, dlyFrame, pitFrame,
                   pit0, ticks, latch, calls, playMark>>

\* outb(0x61, tmp | 0x03); then delay_ms(duration_ms); sound_stop();
PlayGateOut ==
    /\ At_("play_gate_out")
    /\ port61' = GateOn(tmp)
    /\ io' = IoOf("out", SPKR_PORT, GateOn(tmp))
    /\ ports' = Append(ports, Op("out", SPKR_PORT, GateOn(tmp)))
    /\ Push(<<"dly_entry", "stop_in", "play_ret">>)
    /\ UNCHANGED <<callFrame, seqFrame, name, playFrame, tmp, dlyFrame, pitFrame,
                   pit0, ticks, latch, calls, playMark>>

\* sound_play returns
PlayRet ==
    /\ At_("play_ret")
    /\ Return
    /\ UNCHANGED <<callFrame, seqFrame, name, playFrame, tmp, dlyFrame, pitFrame,
                   hwFrame, histFrame>>

-----------------------------------------------------------------------------
(* sound_note(name)                                                        *)

\* the table scan finds an entry: sound_play(notes[i].freq, 450); return
NoteFound ==
    /\ At_("note_entry")
    /\ NoteIndex(name) # 0
    /\ calls' = Append(calls, NoteCall(name))
    /\ freq_hz' = notes[NoteIndex(name)].freq
    /\ duration_ms' = NOTE_MS
    /\ Push(<<"play_entry", "note_ret">>)
    /\ UNCHANGED <<callFrame, seqFrame, name, divisor, tmp, dlyFrame, pitFrame,
                   hwFrame, io, ports, playMark>>

\* the table scan reaches the sentinel: nothing is done
NoteUnknown ==
    /\ At_("note_entry")
    /\ NoteIndex(name) = 0
    /\ calls' = Append(calls, NoteCall(name))
    /\ Return
    /\ UNCHANGED <<callFrame, seqFrame, name, playFrame, tmp, dlyFrame, pitFrame,
                   hwFrame, io, ports, playMark>>

NoteRet ==
    /\ At_("note_ret")
    /\ Return
    /\ UNCHANGED <<callFrame, seqFrame, name, playFrame, tmp, dlyFrame, pitFrame,
                   hwFrame, histFrame>>

-----------------------------------------------------------------------------
(* sound_play_sequence(str)                                                *)

\* c is a delimiter and ti > 0: token[ti] = '\0'; sound_note(token);
\* sound_play(0, 80) follows
SeqToken ==
    /\ At_("seq_loop")
    /\ IsDelim(At(str, pos))
    /\ ti > 0
    /\ token' = [token EXCEPT ![ti] = 0]
    /\ name' = BufStr(token')
    /\ Push(<<"note_entry", "seq_gap">>)
    /\ UNCHANGED <<callFrame, str, pos, ti, playFrame, tmp, dlyFrame, pitFrame,
                   hwFrame, histFrame>>

\* (mutant) the articulation gap is left out
SeqGapSkipped ==
    /\ At_("seq_gap")
    /\ Goto("seq_next")
    /\ UNCHANGED <<callFrame, seqFrame, name, playFrame, tmp, dlyFrame, pitFrame,
                   hwFrame, histFrame>>

\* sound_play(0, 80)
SeqGap ==
    /\ At_("seq_gap")
    /\ freq_hz' = 0
    /\ duration_ms' = GAP_MS
    /\ Push(<<"play_entry", "seq_next">>)
    /\ UNCHANGED <<callFrame, seqFrame, name, divisor, tmp, dlyFrame, pitFrame,
                   hwFrame, histFrame>>

\* (mutant) the token index is not reset after a token
SeqNextKeepsToken ==
    /\ At_("seq_next")
    /\ ti' = ti
    /\ IF At(str, pos) = 0
       THEN Return /\ pos' = pos
       ELSE Goto("seq_loop") /\ pos' = pos + 1
    /\ UNCHANGED <<callFrame, str, token, name, playFrame, tmp, dlyFrame, pitFrame,
                   hwFrame, histFrame>>

\* ti = 0; if (c == '\0') break; str++
SeqNext ==
    /\ At_("seq_next")
    /\ ti' = 0
    /\ IF At(str, pos) = 0
       THEN Return /\ pos' = pos
       ELSE Goto("seq_loop") /\ pos' = pos + 1
    /\ UNCHANGED <<callFrame, str, token, name, playFrame, tmp, dlyFrame, pitFrame,
                   hwFrame, histFrame>>

\* c == ' ' with an empty token: str++
SeqSkip ==
    /\ At_("seq_loop")
    /\ IsDelim(At(str, pos))
    /\ ti = 0
    /\ At(str, pos) # 0
    /\ pos' = pos + 1
    /\ UNCHANGED <<stack, callFrame, str, token, ti, name, playFrame, tmp, dlyFrame,
                   pitFrame, hwFrame, histFrame>>

\* c == '\0' with an empty token: break
SeqEnd ==
    /\ At_("seq_loop")
    /\ IsDelim(At(str, pos))
    /\ ti = 0
    /\ At(str, pos) = 0
    /\ Return
    /\ UNCHANGED <<callFrame, seqFrame, name, playFrame, tmp, dlyFrame,
                   pitFrame, hwFrame, histFrame>>

\* else if (ti < 7) token[ti++] = c; str++
SeqStore ==
    /\ At_("seq_loop")
    /\ ~IsDelim(At(str, pos))
    /\ ti < TOKEN_MAX
    /\ token' = [token EXCEPT ![ti] = At(str, pos)]
    /\ ti' = ti + 1
    /\ pos' = pos + 1
    /\ UNCHANGED <<stack, callFrame, str, name, playFrame, tmp, dlyFrame,
                   pitFrame, hwFrame, histFrame>>

\* (mutant) the character that finds no room starts the token again
SeqDropRestarts ==
    /\ At_("seq_loop")
    /\ ~IsDelim(At(str, pos))
    /\ ~(ti < TOKEN_MAX)
    /\ pos' = pos + 1
    /\ ti' = 0
    /\ UNCHANGED <<stack, callFrame, str, token, name, playFrame, tmp, dlyFrame,
                   pitFrame, hwFrame, histFrame>>

\* neither a delimiter nor room in the token: the character is dropped; str++
SeqDrop ==
    /\ At_("seq_loop")
    /\ ~IsDelim(At(str, pos))
    /\ ~(ti < TOKEN_MAX)
    /\ pos' = pos + 1
    /\ UNCHANGED <<stack, callFrame, str, token, ti, name, playFrame, tmp, dlyFrame,
                   pitFrame, hwFrame, histFrame>>

-----------------------------------------------------------------------------
(* The caller: the shell, or any other user of sound.h.                    *)

\* a driver entry point is called; the free-running counter shows some value
Enter(t) ==
    /\ Idle
    /\ top = "none"
    /\ top' = t
    /\ pit0' \in PitStarts
    /\ ticks' = ticks
    /\ UNCHANGED <<pos, ti, divisor, tmp, dlyFrame, pitFrame, port61, latch,
                   histFrame, vgaVars, rpiVars, kbVars, shVars>>

NoToken == [i \in 0..TOKEN_MAX |-> 0]

CallPlay(Freqs, Durations) ==
    /\ Enter("sound_play")
    /\ freq_hz' \in Freqs
    /\ duration_ms' \in Durations
    /\ stack' = <<"play_entry">>
    /\ str' = <<>> /\ token' = NoToken /\ name' = <<>>

CallStop ==
    /\ Enter("sound_stop")
    /\ stack' = <<"stop_in">>
    /\ freq_hz' = 0 /\ duration_ms' = 0
    /\ str' = <<>> /\ token' = NoToken /\ name' = <<>>

CallNote(Names) ==
    /\ Enter("sound_note")
    /\ name' \in Names
    /\ stack' = <<"note_entry">>
    /\ freq_hz' = 0 /\ duration_ms' = 0
    /\ str' = <<>> /\ token' = NoToken

\* char token[8] is not initialised: it holds whatever the stack held
CallSequence(Texts, Garbage) ==
    /\ Enter("sound_play_sequence")
    /\ str' \in Texts
    /\ \E g \in Garbage : token' = [i \in 0..TOKEN_MAX |-> g]
    /\ stack' = <<"seq_loop">>
    /\ freq_hz' = 0 /\ duration_ms' = 0
    /\ name' = <<>>

\* the entry point has returned and its caller goes on: the frames are dead
\* and what the call did is forgotten; only the hardware keeps its state
Resume ==
    /\ Idle
    /\ top # "none"
    /\ top' = "none"
    /\ stack' = <<>>
    /\ str' = <<>> /\ pos' = 0 /\ token' = NoToken /\ ti' = 0
    /\ name' = <<>>
    /\ freq_hz' = 0 /\ duration_ms' = 0 /\ divisor' = 0 /\ tmp' = 0
    /\ ms' = 0 /\ ticks_needed' = Zero32 /\ prev' = 0 /\ elapsed' = Zero32
    /\ lo' = 0 /\ hi' = 0
    /\ io' = NoIo /\ ports' = <<>> /\ calls' = <<>> /\ playMark' = 0
    /\ ticks' = Zero32
    /\ UNCHANGED <<port61, pit0, latch, vgaVars, rpiVars, kbVars, shVars>>

\* bit 4 of port 0x61 is the DRAM refresh toggle: it flips on its own
HwToggle61 ==
    /\ port61' = IF (port61 \div 16) % 2 = 1 THEN port61 - 16 ELSE port61 + 16
    /\ UNCHANGED <<stack, callFrame, seqFrame, name, playFrame, tmp, dlyFrame,
                   pitFrame, pit0, ticks, latch, histFrame>>

-----------------------------------------------------------------------------
(* vga.c: the console as a value k = [mem, row, col, color, crt, oob], and *)
(* its functions as operators from console to console.                     *)

Console == [mem |-> VGA_MEM, row |-> cursor_row, col |-> cursor_col,
            color |-> current_color, crt |-> crtc, oob |-> oob]

\* (uint16_t)(uint8_t)c | ((uint16_t)color << 8)
vga_entry(c, color) == (c % 256) + color * 256

\* outb to the CRT controller: 0x3D4 selects a register, 0x3D5 writes it
\* (0x0E and 0x0F are the cursor position, high and low byte)
CrtOut(crt, port, v) ==
    IF port = CRT_INDEX THEN [crt EXCEPT !.index = v]
    ELSE IF crt.index = 15 THEN [crt EXCEPT !.lo = v]
    ELSE IF crt.index = 14 THEN [crt EXCEPT !.hi = v]
    ELSE crt

\* (mutant) each data byte is sent before its register is selected
vga_update_cursor_data_first(k) ==
    LET p == (k.row * VGA_WIDTH + k.col) % U16
    IN  [k EXCEPT !.crt = CrtOut(CrtOut(CrtOut(CrtOut(k.crt,
                              CRT_DATA, p % 256), CRT_INDEX, 15),
                              CRT_DATA, p \div 256), CRT_INDEX, 14)]

vga_update_cursor(k) ==
    LET p == (k.row * VGA_WIDTH + k.col) % U16
    IN  [k EXCEPT !.crt = CrtOut(CrtOut(CrtOut(CrtOut(k.crt,
                              CRT_INDEX, 15), CRT_DATA, p % 256),
                              CRT_INDEX, 14), CRT_DATA, p \div 256)]

\* VGA_MEM[row * VGA_WIDTH + col] = e; a write outside the 2000 cells lands in
\* other memory: the buffer keeps its content and the fact is recorded
Store(k, row, col, e) ==
    LET i == row * VGA_WIDTH + col
    IN  IF i >= 0 /\ i < VGA_WIDTH * VGA_HEIGHT
        THEN [k EXCEPT !.mem[(i \div VGA_WIDTH) + 1][(i % VGA_WIDTH) + 1] = e]
        ELSE [k EXCEPT !.oob = TRUE]

BlankRow(color) == [c \in 1..VGA_WIDTH |-> vga_entry(32, color)]

\* (mutant) the last row is not blanked
vga_scroll_noblank(k) ==
    [k EXCEPT !.mem = Tail(k.mem) \o <<k.mem[VGA_HEIGHT]>>,
              !.row = VGA_HEIGHT - 1]

\* (mutant) the last row is blanked under the default attribute
vga_scroll_default_attr(k) ==
    [k EXCEPT !.mem = Tail(k.mem) \o <<BlankRow(DEFAULT_COLOR)>>,
              !.row = VGA_HEIGHT - 1]

\* (mutant) the cursor is left below the last row
vga_scroll_past(k) ==
    [k EXCEPT !.mem = Tail(k.mem) \o <<BlankRow(k.color)>>,
              !.row = VGA_HEIGHT]

\* every row takes the content of the row below, the last row is blanked
vga_scroll(k) ==
    [k EXCEPT !.mem = Tail(k.mem) \o <<BlankRow(k.color)>>,
              !.row = VGA_HEIGHT - 1]

\* (mutant) the wrap comes one column late
AdvanceLateWrap(k, c) ==
    IF c = 10 THEN [k EXCEPT !.col = 0, !.row = k.row + 1]
    ELSE IF c = 13 THEN [k EXCEPT !.col = 0]
    ELSE IF c = 8
         THEN IF k.col > 0
              THEN Store([k EXCEPT !.col = k.col - 1], k.row, k.col - 1,
                         vga_entry(32, k.color))
              ELSE k
    ELSE LET w == Store(k, k.row, k.col, vga_entry(c, k.color))
         IN  IF w.col + 1 > VGA_WIDTH
             THEN [w EXCEPT !.col = 0, !.row = w.row + 1]
             ELSE [w EXCEPT !.col = w.col + 1]

\* the branches of vga_putchar, before the scroll test
Advance(k, c) ==
    IF c = 10 THEN [k EXCEPT !.col = 0, !.row = k.row + 1]
    ELSE IF c = 13 THEN [k EXCEPT !.col = 0]
    ELSE IF c = 8
         THEN IF k.col > 0
              THEN Store([k EXCEPT !.col = k.col - 1], k.row, k.col - 1,
                         vga_entry(32, k.color))
              ELSE k
    ELSE LET w == Store(k, k.row, k.col, vga_entry(c, k.color))
         IN  IF w.col + 1 >= VGA_WIDTH
             THEN [w EXCEPT !.col = 0, !.row = w.row + 1]
             ELSE [w EXCEPT !.col = w.col + 1]

vga_putchar(k, c) ==
    LET a == Advance(k, c)
    IN  vga_update_cursor(IF a.row >= VGA_HEIGHT THEN vga_scroll(a) ELSE a)

\* while (*str) vga_putchar(*str++): the characters in order. The loop is
\* unfolded by halves of the string, and the console after the first half is
\* computed (mid = mid) before the second half is applied to it, which keeps
\* the evaluation of long strings shallow.
RECURSIVE vga_print(_, _)
vga_print(k, s) ==
    IF s = <<>> THEN k
    ELSE IF Len(s) = 1 THEN vga_putchar(k, s[1])
    ELSE LET mid == vga_print(k, SubSeq(s, 1, Len(s) \div 2))
         IN  IF mid = mid
             THEN vga_print(mid, SubSeq(s, (Len(s) \div 2) + 1, Len(s)))
             ELSE mid

\* (mutant) the division is done on the low 16 bits
Div10LowHalf(n) == U32Of(0, n.lo \div 10)

\* n % 10 and n / 10 of a uint32_t n = [hi, lo]
Mod10(n) == ((n.hi % 10) * U16 + n.lo) % 10
Div10(n) == U32Of(n.hi \div 10, ((n.hi % 10) * U16 + n.lo) \div 10)

\* buf[i++] = '0' + (n % 10); n /= 10  -- the digits, least significant first
RECURSIVE DigitBuf(_)
DigitBuf(n) ==
    IF n = Zero32 THEN <<>> ELSE <<48 + Mod10(n)>> \o DigitBuf(Div10(n))

Reverse(q) == [j \in 1..Len(q) |-> q[Len(q) + 1 - j]]

vga_print_int(k, n) ==
    IF n = Zero32 THEN vga_putchar(k, 48)
    ELSE vga_print(k, Reverse(DigitBuf(n)))

\* (mutant) the two digits are the nibbles of n
vga_print_int2_nibbles(k, n) ==
    vga_putchar(vga_putchar(k, 48 + (n \div 16)), 48 + (n % 16))

vga_print_int2(k, n) ==
    vga_putchar(vga_putchar(k, 48 + (n \div 10)), 48 + (n % 10))

vga_newline(k) == vga_putchar(k, 10)

\* current_color = (bg << 4) | (fg & 0x0F), in a uint8_t
vga_set_color(k, fg, bg) ==
    [k EXCEPT !.color = ((bg * 16) % 256) + (fg % 16)]

\* (mutant) the loop stops one cell early
vga_clear_short(k) ==
    vga_update_cursor(
        [k EXCEPT !.mem = [r \in 1..VGA_HEIGHT |->
                             [c \in 1..VGA_WIDTH |->
                                IF r = VGA_HEIGHT /\ c = VGA_WIDTH
                                THEN k.mem[r][c]
                                ELSE vga_entry(32, k.color)]],
                  !.row = 0, !.col = 0])

vga_clear(k) ==
    vga_update_cursor(
        [k EXCEPT !.mem = [r \in 1..VGA_HEIGHT |-> BlankRow(k.color)],
                  !.row = 0, !.col = 0])

vga_init(k) == vga_clear([k EXCEPT !.color = DEFAULT_COLOR])

\* (mutant) the colours are swapped as 3-bit indexes, bits 3 and 7 are lost
InvertedNoBright(e) ==
    LET attr == e \div 256
    IN  (e % 256) + (((attr % 8) * 16) + ((attr \div 16) % 8)) * 256

\* one pass of vga_flash: the two nibbles of every attribute byte are swapped
Inverted(e) ==
    LET attr == e \div 256
    IN  (e % 256) + (((attr % 16) * 16) + ((attr \div 16) % 16)) * 256

FlashPass(k) ==
    [k EXCEPT !.mem = [r \in 1..VGA_HEIGHT |->
                         [c \in 1..VGA_WIDTH |-> Inverted(k.mem[r][c])]]]

-----------------------------------------------------------------------------
(* The console operations, called one after the other.                     *)

\* a call of function fn with integer arguments n, m and string argument s
\* (0 and <<>> where the function has none; n and m are the high and the low
\* half of a uint32_t argument)
Called(fn, n, m, s) == [fn |-> fn, n |-> n, m |-> m, s |-> s]

\* console function `call` returns console k
VgaReturn(call, k) ==
    /\ vgaPc = "idle"
    /\ vgaOps' = vgaOps + 1
    /\ vgaLast' = call
    /\ VGA_MEM' = k.mem
    /\ cursor_row' = k.row
    /\ cursor_col' = k.col
    /\ current_color' = k.color
    /\ crtc' = k.crt
    /\ oob' = k.oob
    /\ UNCHANGED <<vgaPc, flashSaved, soundVars, rpiVars, kbVars, shVars>>

\* console function `call` is called and returns console k
VgaCall(call, k) == vgaOps < MaxVgaOps /\ VgaReturn(call, k)

VgaInit == VgaCall(Called("vga_init", 0, 0, <<>>), vga_init(Console))

VgaClear == VgaCall(Called("vga_clear", 0, 0, <<>>), vga_clear(Console))

VgaPutchar(Chars) ==
    \E c \in Chars :
        VgaCall(Called("vga_putchar", c, 0, <<>>), vga_putchar(Console, c))

VgaPrint(Texts) ==
    \E t \in Texts :
        VgaCall(Called("vga_print", 0, 0, t), vga_print(Console, t))

VgaPrintInt(Ints) ==
    \E n \in Ints :
        VgaCall(Called("vga_print_int", n.hi, n.lo, <<>>),
                vga_print_int(Console, n))

VgaPrintInt2(Ints) ==
    \E n \in Ints :
        VgaCall(Called("vga_print_int2", n, 0, <<>>),
                vga_print_int2(Console, n))

VgaSetColor(Colors) ==
    \E fg \in Colors, bg \in Colors :
        VgaCall(Called("vga_set_color", fg, bg, <<>>),
                vga_set_color(Console, fg, bg))

\* vga_flash, first pass; the busy loop follows
VgaFlashInvert ==
    /\ vgaPc = "idle"
    /\ vgaOps < MaxVgaOps
    /\ vgaOps' = vgaOps + 1
    /\ VGA_MEM' = FlashPass(Console).mem
    /\ vgaPc' = "flash_hold"
    /\ vgaLast' = Called("vga_flash", 0, 0, <<>>)
    /\ flashSaved' = VGA_MEM
    /\ UNCHANGED <<cursor_row, cursor_col, current_color, crtc, oob, soundVars,
                   rpiVars, kbVars, shVars>>

\* vga_flash, second pass, and return
VgaFlashRestore ==
    /\ vgaPc = "flash_hold"
    /\ VGA_MEM' = FlashPass(Console).mem
    /\ vgaPc' = "idle"
    /\ flashSaved' = <<>>
    /\ UNCHANGED <<cursor_row, cursor_col, current_color, crtc, oob, vgaOps,
                   vgaLast, soundVars, rpiVars, kbVars, shVars>>

-----------------------------------------------------------------------------
(* vga_rpi3.c: the console of the Raspberry Pi build, a serial terminal    *)
(* behind the PL011 UART.  The console is the value                        *)
(* u = [regs, tx, term].                                                   *)

Serial == [regs |-> uart, tx |-> tx, term |-> term]

ESC == 27

\* the value of the decimal digits ds (0 for none)
RECURSIVE Decimal(_)
Decimal(ds) ==
    IF ds = <<>> THEN 0
    ELSE Decimal(SubSeq(ds, 1, Len(ds) - 1)) * 10 + (ds[Len(ds)] - 48)

\* the terminal executes the control sequence ESC [ params final
TermExec(t, params, final) ==
    IF final = 74 /\ params = <<50>> THEN [t EXCEPT !.dirty = FALSE]
    ELSE IF final = 72 /\ params = <<>> THEN [t EXCEPT !.home = TRUE]
    ELSE IF final = 109 THEN [t EXCEPT !.fg = Decimal(params)]
    ELSE IF final = 104 /\ params = <<63, 53>> THEN [t EXCEPT !.reverse = TRUE]
    ELSE IF final = 108 /\ params = <<63, 53>> THEN [t EXCEPT !.reverse = FALSE]
    ELSE t

\* the terminal receives byte b: it collects a control sequence up to its
\* final byte, or shows a character in the colour selected last
TermFeed(t, b) ==
    IF t.esc = <<>>
    THEN IF b = ESC THEN [t EXCEPT !.esc = <<ESC>>]
         ELSE IF b >= 32 THEN [t EXCEPT !.dirty = TRUE, !.home = FALSE,
                                        !.ink = t.fg]
         ELSE IF b = 10 THEN [t EXCEPT !.home = FALSE]
         ELSE t
    ELSE IF Len(t.esc) = 1
    THEN IF b = 91 THEN [t EXCEPT !.esc = <<ESC, 91>>]
         ELSE [t EXCEPT !.esc = <<>>]
    ELSE IF b >= 64 /\ b <= 126
    THEN TermExec([t EXCEPT !.esc = <<>>], SubSeq(t.esc, 3, Len(t.esc)), b)
    ELSE [t EXCEPT !.esc = Append(t.esc, b)]

\* *UART_DR = (uint32_t)(uint8_t)c, once the TX FIFO has room
uart_putchar(u, c) ==
    [u EXCEPT !.tx = Append(u.tx, c % 256), !.term = TermFeed(u.term, c % 256)]

\* every character of s, a '\n' preceded by '\r' (the loop is unfolded by
\* halves of the string, as in vga_print)
RECURSIVE uart_puts(_, _)
uart_puts(u, s) ==
    IF s = <<>> THEN u
    ELSE IF Len(s) = 1
    THEN uart_putchar(IF s[1] = 10 THEN uart_putchar(u, 13) ELSE u, s[1])
    ELSE LET mid == uart_puts(u, SubSeq(s, 1, Len(s) \div 2))
         IN  IF mid = mid
             THEN uart_puts(mid, SubSeq(s, (Len(s) \div 2) + 1, Len(s)))
             ELSE mid

\* "\033[2J\033[H"
ERASE_HOME == <<ESC, 91, 50, 74, ESC, 91, 72>>

vga_clear_rpi3(u) == uart_puts(u, ERASE_HOME)

\* the UART is disabled, set to 115200 8N1 with FIFOs, enabled; then vga_clear
vga_init_rpi3(u) ==
    vga_clear_rpi3(
        [u EXCEPT !.regs = [cr |-> 769, icr |-> 2047, ibrd |-> 26, fbrd |-> 3,
                            lcrh |-> 112]])

vga_putchar_rpi3(u, c) ==
    uart_putchar(IF c = 10 THEN uart_putchar(u, 13) ELSE u, c)

vga_print_rpi3(u, s) == uart_puts(u, s)

\* uart_puts("\r\n")
vga_newline_rpi3(u) == uart_puts(u, <<13, 10>>)

\* uart_putchar for each character of s
RECURSIVE PutEach(_, _)
PutEach(u, s) ==
    IF s = <<>> THEN u ELSE PutEach(uart_putchar(u, Head(s)), Tail(s))

vga_print_int_rpi3(u, n) ==
    IF n = Zero32 THEN uart_putchar(u, 48)
    ELSE PutEach(u, Reverse(DigitBuf(n)))

vga_print_int2_rpi3(u, n) ==
    uart_putchar(uart_putchar(u, 48 + (n \div 10)), 48 + (n % 10))

\* the parameter of the colour sequence of each of the 16 colour indexes
ansi_fg_code == <<30, 34, 32, 36, 31, 35, 33, 37, 90, 94, 92, 96, 91, 95, 93, 97>>
\* ansi_fg[i]: "\033[" code "m"
ansi_fg(i) ==
    <<ESC, 91, 48 + (ansi_fg_code[i + 1] \div 10),
      48 + (ansi_fg_code[i + 1] % 10), 109>>

vga_set_color_rpi3(u, fg, bg) ==
    IF fg < 16 THEN uart_puts(u, ansi_fg(fg)) ELSE u

\* "\033[?5h" and "\033[?5l"
REVERSE_ON  == <<ESC, 91, 63, 53, 104>>
REVERSE_OFF == <<ESC, 91, 63, 53, 108>>

-----------------------------------------------------------------------------
(* The operations of the serial console, called one after the other.       *)

\* console function `call` returns console u; tx holds what the call
\* transmitted
RpiReturn(call, u) ==
    /\ vgaPc = "idle"
    /\ vgaOps' = vgaOps + 1
    /\ vgaLast' = call
    /\ uart' = u.regs
    /\ tx' = u.tx
    /\ term' = u.term
    /\ UNCHANGED <<VGA_MEM, cursor_row, cursor_col, current_color, crtc, oob,
                   flashSaved, vgaPc, soundVars, kbVars, shVars>>

\* console function `call` is called and returns console u
RpiCall(call, u) == vgaOps < MaxVgaOps /\ RpiReturn(call, u)

\* the console as a call finds it: nothing transmitted yet
Fresh == [Serial EXCEPT !.tx = <<>>]

RpiInit == RpiCall(Called("vga_init", 0, 0, <<>>), vga_init_rpi3(Fresh))

RpiClear == RpiCall(Called("vga_clear", 0, 0, <<>>), vga_clear_rpi3(Fresh))

RpiPutchar(Chars) ==
    \E c \in Chars :
        RpiCall(Called("vga_putchar", c, 0, <<>>), vga_putchar_rpi3(Fresh, c))

RpiPrint(Texts) ==
    \E t \in Texts :
        RpiCall(Called("vga_print", 0, 0, t), vga_print_rpi3(Fresh, t))

RpiSetColor(Fgs, Bgs) ==
    \E fg \in Fgs, bg \in Bgs :
        RpiCall(Called("vga_set_color", fg, bg, <<>>),
                vga_set_color_rpi3(Fresh, fg, bg))

\* vga_flash: reverse video on; the busy loop follows
RpiFlashOn ==
    /\ vgaPc = "idle"
    /\ vgaOps < MaxVgaOps
    /\ vgaOps' = vgaOps + 1
    /\ vgaLast' = Called("vga_flash", 0, 0, <<>>)
    /\ tx' = uart_puts(Fresh, REVERSE_ON).tx
    /\ term' = uart_puts(Fresh, REVERSE_ON).term
    /\ vgaPc' = "flash_hold"
    /\ UNCHANGED <<VGA_MEM, cursor_row, cursor_col, current_color, crtc, oob,
                   flashSaved, uart, soundVars, kbVars, shVars>>

\* vga_flash: reverse video off, and return
RpiFlashOff ==
    /\ vgaPc = "flash_hold"
    /\ tx' = uart_puts(Serial, REVERSE_OFF).tx
    /\ term' = uart_puts(Serial, REVERSE_OFF).term
    /\ vgaPc' = "idle"
    /\ UNCHANGED <<VGA_MEM, cursor_row, cursor_col, current_color, crtc, oob,
                   flashSaved, uart, vgaOps, vgaLast, soundVars, kbVars, shVars>>

-----------------------------------------------------------------------------
(* The console functions of vga.h, in the build of either platform.        *)

\* console function `call` is called in the build of the platform; k and u
\* are what vga.c and vga_rpi3.c make of it
ConsoleCall(call, k, u) ==
    /\ vgaOps < MaxPrints
    /\ IF platform = "x86" THEN VgaReturn(call, k) ELSE RpiReturn(call, u)

PrintInt2(Ints) ==
    \E n \in Ints :
        ConsoleCall(Called("vga_print_int2", n, 0, <<>>),
                    vga_print_int2(Console, n), vga_print_int2_rpi3(Fresh, n))

PrintInt(Ints) ==
    \E n \in Ints :
        ConsoleCall(Called("vga_print_int", n.hi, n.lo, <<>>),
                    vga_print_int(Console, n), vga_print_int_rpi3(Fresh, n))

Newline ==
    ConsoleCall(Called("vga_newline", 0, 0, <<>>),
                vga_newline(Console), vga_newline_rpi3(Fresh))

Putchar(Chars) ==
    \E c \in Chars :
        ConsoleCall(Called("vga_putchar", c, 0, <<>>),
                    vga_putchar(Console, c), vga_putchar_rpi3(Fresh, c))

-----------------------------------------------------------------------------
(* keyboard.c and keyboard_rpi3.c: keyboard_getchar and keyboard_readline. *)

\* scan code (set 1) -> ASCII, AZERTY; entry i of the C table is sc_azerty[i + 1]
sc_azerty ==
    <<
       0, 0, 49, 50, 51, 52, 53, 54,   \* 0x00
       55, 56, 57, 48, 45, 61, 8, 9,   \* 0x08
       97, 122, 101, 114, 116, 121, 117, 105,   \* 0x10
       111, 112, 91, 93, 10, 0, 113, 115,   \* 0x18
       100, 102, 103, 104, 106, 107, 108, 109,   \* 0x20
       39, 96, 0, 92, 119, 120, 99, 118,   \* 0x28
       98, 110, 44, 46, 47, 0, 42, 0,   \* 0x30
       0, 32, 0, 0, 0, 0, 0, 0,   \* 0x38
       0, 0, 0, 0, 0, 0, 0, 0,  0, 0, 0, 0, 0, 0, 0, 0,
       0, 0, 0, 0, 0, 0, 0, 0,  0, 0, 0, 0, 0, 0, 0, 0,
       0, 0, 0, 0, 0, 0, 0, 0,  0, 0, 0, 0, 0, 0, 0, 0,
       0, 0, 0, 0, 0, 0, 0, 0,  0, 0, 0, 0, 0, 0, 0, 0
    >>

\* keyboard.c, keyboard_getchar, one turn of its loop on scan code sc: the
\* character returned, or 0 when the loop goes on (break code, unmapped key)
ScanChar(sc) == IF sc >= 128 THEN 0 ELSE sc_azerty[sc + 1]

\* buf[i] = v
BufStore(i, v) ==
    IF i >= 0 /\ i < kbMax
    THEN kbBuf' = [kbBuf EXCEPT ![i + 1] = v] /\ UNCHANGED kbOob
    ELSE kbOob' = TRUE /\ UNCHANGED kbBuf

\* vga_putchar of vga_rpi3.c for each character of cs, in order
RECURSIVE PutAllRpi3(_, _)
PutAllRpi3(u, cs) ==
    IF cs = <<>> THEN u
    ELSE PutAllRpi3(vga_putchar_rpi3(u, Head(cs)), Tail(cs))

\* keyboard_readline passes the characters cs to vga_putchar, in order (on
\* x86 that is what vga_print does with a string)
Echo(cs) ==
    /\ kbEcho' = kbEcho \o cs
    /\ IF platform = "x86"
       THEN /\ VGA_MEM' = vga_print(Console, cs).mem
            /\ cursor_row' = vga_print(Console, cs).row
            /\ cursor_col' = vga_print(Console, cs).col
            /\ crtc' = vga_print(Console, cs).crt
            /\ oob' = vga_print(Console, cs).oob
            /\ UNCHANGED <<tx, term>>
       ELSE /\ tx' = PutAllRpi3(Serial, cs).tx
            /\ term' = PutAllRpi3(Serial, cs).term
            /\ UNCHANGED <<VGA_MEM, cursor_row, cursor_col, crtc, oob>>
    /\ UNCHANGED <<current_color, vgaPc, vgaLast, flashSaved, vgaOps, uart>>

NoEcho == UNCHANGED <<vgaVars, rpiVars, kbEcho>>

\* keyboard_readline(buf, max) is called: int len = 0
KbdReadline(Maxes) ==
    /\ kbPc = "idle" /\ kbRet = -1
    /\ \E m \in Maxes :
         /\ kbMax' = m
         /\ kbBuf' = [i \in 1..m |-> 120]
    /\ kbLen' = 0
    /\ kbPc' = "getchar"
    /\ kbTyped' = <<>> /\ kbEcho' = <<>>
    /\ kbStart' = [row |-> cursor_row, col |-> cursor_col]
    /\ UNCHANGED <<platform, kbChar, kbRet, kbOob, kbIn, vgaVars, rpiVars,
                   soundVars, shVars>>

\* no port was read
NoRead == [port |-> 0, val |-> 0]

\* a read of port p that gave v, after the reads so far
PortRead(p, v) == <<kbIn[2], [port |-> p, val |-> v]>>

\* (mutant) the status byte is tested as a whole
KbdPollAnyBit(Statuses) ==
    /\ platform = "x86" /\ kbPc = "getchar"
    /\ \E st \in Statuses :
         /\ kbIn' = PortRead(KB_STATUS, st)
         /\ kbPc' = IF st # 0 THEN "data" ELSE "getchar"
    /\ UNCHANGED <<platform, kbBuf, kbMax, kbLen, kbChar, kbRet, kbOob, kbTyped,
                   kbEcho, kbStart, vgaVars, rpiVars, soundVars, shVars>>

\* keyboard.c, keyboard_getchar: while (!(inb(KB_STATUS) & 0x01));
KbdPoll(Statuses) ==
    /\ platform = "x86" /\ kbPc = "getchar"
    /\ \E st \in Statuses :
         /\ kbIn' = PortRead(KB_STATUS, st)
         /\ kbPc' = IF st % 2 = 1 THEN "data" ELSE "getchar"
    /\ UNCHANGED <<platform, kbBuf, kbMax, kbLen, kbChar, kbRet, kbOob, kbTyped,
                   kbEcho, kbStart, vgaVars, rpiVars, soundVars, shVars>>

\* keyboard.c, keyboard_getchar: sc = inb(KB_DATA); a break code or the code
\* of a key that is not in the table sends the loop back to the poll, the
\* make code of a mapped key returns its character
KbdGetchar(Codes) ==
    /\ platform = "x86" /\ kbPc = "data"
    /\ Len(kbTyped) < MaxKeys
    /\ \E sc \in Codes :
         /\ kbIn' = PortRead(KB_DATA, sc)
         /\ IF ScanChar(sc) = 0
            THEN /\ kbPc' = "getchar"
                 /\ UNCHANGED <<kbChar, kbTyped>>
            ELSE /\ kbChar' = ScanChar(sc)
                 /\ kbTyped' = Append(kbTyped, ScanChar(sc))
                 /\ kbPc' = "got"
    /\ UNCHANGED <<platform, kbBuf, kbMax, kbLen, kbRet, kbOob, kbEcho, kbStart,
                   vgaVars, rpiVars, soundVars, shVars>>

\* keyboard_rpi3.c, keyboard_getchar: a byte is read from the UART
KbdGetcharRpi(Bytes) ==
    /\ platform = "rpi3" /\ kbPc = "getchar"
    /\ Len(kbTyped) < MaxKeys
    /\ \E b \in Bytes :
         /\ kbChar' = b
         /\ kbTyped' = Append(kbTyped, b)
    /\ kbPc' = "got"
    /\ UNCHANGED <<platform, kbBuf, kbMax, kbLen, kbRet, kbOob, kbEcho, kbStart,
                   kbIn, vgaVars, rpiVars, soundVars, shVars>>

\* (mutant) backspace is not guarded by len > 0
KbdLineUnguarded ==
    /\ platform = "x86" /\ kbPc = "got"
    /\ IF kbChar = 10
       THEN /\ BufStore(kbLen, 0)
            /\ Echo(<<10>>)
            /\ kbRet' = kbLen
            /\ kbPc' = "idle"
            /\ UNCHANGED kbLen
       ELSE IF kbChar = 8
       THEN /\ kbLen' = kbLen - 1
            /\ Echo(<<8>>)
            /\ kbPc' = "getchar"
            /\ UNCHANGED <<kbBuf, kbOob, kbRet>>
       ELSE IF kbLen < kbMax - 1
       THEN /\ BufStore(kbLen, kbChar)
            /\ kbLen' = kbLen + 1
            /\ Echo(<<kbChar>>)
            /\ kbPc' = "getchar"
            /\ UNCHANGED kbRet
       ELSE /\ NoEcho
            /\ kbPc' = "getchar"
            /\ UNCHANGED <<kbBuf, kbOob, kbLen, kbRet>>
    /\ UNCHANGED <<platform, kbMax, kbChar, kbTyped, kbStart, kbIn, soundVars, shVars>>

\* keyboard.c, keyboard_readline: the body of the loop on character c
KbdLine ==
    /\ platform = "x86" /\ kbPc = "got"
    /\ IF kbChar = 10
       THEN /\ BufStore(kbLen, 0)
            /\ Echo(<<10>>)
            /\ kbRet' = kbLen
            /\ kbPc' = "idle"
            /\ UNCHANGED kbLen
       ELSE IF kbChar = 8
       THEN /\ IF kbLen > 0
               THEN kbLen' = kbLen - 1 /\ Echo(<<8>>)
               ELSE UNCHANGED kbLen /\ NoEcho
            /\ kbPc' = "getchar"
            /\ UNCHANGED <<kbBuf, kbOob, kbRet>>
       ELSE IF kbLen < kbMax - 1
       THEN /\ BufStore(kbLen, kbChar)
            /\ kbLen' = kbLen + 1
            /\ Echo(<<kbChar>>)
            /\ kbPc' = "getchar"
            /\ UNCHANGED kbRet
       ELSE /\ NoEcho
            /\ kbPc' = "getchar"
            /\ UNCHANGED <<kbBuf, kbOob, kbLen, kbRet>>
    /\ UNCHANGED <<platform, kbMax, kbChar, kbTyped, kbStart, kbIn, soundVars, shVars>>

\* (mutant) the erase is the single backspace of the framebuffer build
KbdLineRpiBareBackspace ==
    /\ platform = "rpi3" /\ kbPc = "got"
    /\ IF kbChar = 13 \/ kbChar = 10
       THEN /\ BufStore(kbLen, 0)
            /\ Echo(<<10>>)
            /\ kbRet' = kbLen
            /\ kbPc' = "idle"
            /\ UNCHANGED kbLen
       ELSE IF kbChar = 8 \/ kbChar = 127
       THEN /\ IF kbLen > 0
               THEN kbLen' = kbLen - 1 /\ Echo(<<8>>)
               ELSE UNCHANGED kbLen /\ NoEcho
            /\ kbPc' = "getchar"
            /\ UNCHANGED <<kbBuf, kbOob, kbRet>>
       ELSE IF kbChar >= 32 /\ kbLen < kbMax - 1
       THEN /\ BufStore(kbLen, kbChar)
            /\ kbLen' = kbLen + 1
            /\ Echo(<<kbChar>>)
            /\ kbPc' = "getchar"
            /\ UNCHANGED kbRet
       ELSE /\ NoEcho
            /\ kbPc' = "getchar"
            /\ UNCHANGED <<kbBuf, kbOob, kbLen, kbRet>>
    /\ UNCHANGED <<platform, kbMax, kbChar, kbTyped, kbStart, kbIn, soundVars, shVars>>

\* keyboard_rpi3.c, keyboard_readline: the body of the loop on character c
KbdLineRpi ==
    /\ platform = "rpi3" /\ kbPc = "got"
    /\ IF kbChar = 13 \/ kbChar = 10
       THEN /\ BufStore(kbLen, 0)
            /\ Echo(<<10>>)
            /\ kbRet' = kbLen
            /\ kbPc' = "idle"
            /\ UNCHANGED kbLen
       ELSE IF kbChar = 8 \/ kbChar = 127
       THEN /\ IF kbLen > 0
               THEN kbLen' = kbLen - 1 /\ Echo(<<8, 32, 8>>)
               ELSE UNCHANGED kbLen /\ NoEcho
            /\ kbPc' = "getchar"
            /\ UNCHANGED <<kbBuf, kbOob, kbRet>>
       ELSE IF kbChar >= 32 /\ kbLen < kbMax - 1
       THEN /\ BufStore(kbLen, kbChar)
            /\ kbLen' = kbLen + 1
            /\ Echo(<<kbChar>>)
            /\ kbPc' = "getchar"
            /\ UNCHANGED kbRet
       ELSE /\ NoEcho
            /\ kbPc' = "getchar"
            /\ UNCHANGED <<kbBuf, kbOob, kbLen, kbRet>>
    /\ UNCHANGED <<platform, kbMax, kbChar, kbTyped, kbStart, kbIn, soundVars, shVars>>

-----------------------------------------------------------------------------
(* shell.c: the clock commands cmd_date and cmd_time, and the note command *)
(* of the build without sound.                                             *)

\* (mutant) the high nibble is taken as a multiple of 16
bcd2dec_binary(bcd) == (((bcd \div 16) * 16) + (bcd % 16)) % 256

\* ((bcd >> 4) * 10) + (bcd & 0x0F), returned as a uint8_t
bcd2dec(bcd) == (((bcd \div 16) * 10) + (bcd % 16)) % 256

\* the registers cmd_date and cmd_time read, in the order of the reads:
\* day, month, year, century; hours, minutes, seconds
ClockRegs(c) == IF c = "date" THEN <<7, 8, 9, 50>> ELSE <<4, 2, 0>>

\* the characters vga_print_int2(n) passes to vga_putchar
Int2Chars(n) == <<48 + (n \div 10), 48 + (n % 10)>>

\* the characters cmd_date and cmd_time pass to the console once the locals
\* v are assigned
ClockChars(c, v) ==
    IF c = "date"
    THEN <<10>> \o Int2Chars(v[1]) \o <<47>> \o Int2Chars(v[2]) \o <<47>>
              \o Int2Chars(v[4]) \o Int2Chars(v[3]) \o <<10>>
    ELSE <<10>> \o Int2Chars(v[1]) \o <<58>> \o Int2Chars(v[2]) \o <<58>>
              \o Int2Chars(v[3]) \o <<10>>

\* "Not available on RPi3 (no RTC)"
NOT_AVAILABLE ==
    <<78, 111, 116, 32, 97, 118, 97, 105, 108, 97, 98, 108, 101, 32,
      111, 110, 32, 82, 80, 105, 51, 32, 40, 110, 111, 32, 82, 84, 67,
      41>>

\* (mutant) zeros are printed in place of the date
cmd_clock_rpi3_zeros(u) ==
    vga_newline_rpi3(vga_print_rpi3(vga_newline_rpi3(u), <<48, 48, 47, 48, 48>>))

\* cmd_date and cmd_time under PLATFORM_RPI3
cmd_clock_rpi3(u) ==
    vga_newline_rpi3(vga_print_rpi3(vga_newline_rpi3(u), NOT_AVAILABLE))

\* the dispatcher calls cmd_date or cmd_time
CmdClock(Cmds, Most) ==
    /\ cmdPc = "idle" /\ vgaPc = "idle" /\ kbPc = "idle"
    /\ cmdRuns < Most
    /\ cmdRuns' = cmdRuns + 1
    /\ \E c \in Cmds : cmd' = c
    /\ rtcVals' = <<>>
    /\ rtcIo' = <<>>
    /\ IF platform = "x86"
       THEN /\ cmdPc' = "index"
            /\ cmdOut' = <<>>
            /\ UNCHANGED rpiVars
       ELSE /\ cmdPc' = "idle"
            /\ cmdOut' = <<10>> \o NOT_AVAILABLE \o <<10>>
            /\ tx' = cmd_clock_rpi3(Fresh).tx
            /\ term' = cmd_clock_rpi3(Fresh).term
            /\ UNCHANGED uart
    /\ UNCHANGED <<rtcReg, shPc, shBuf, bootVars, mmioVars, soundVars, vgaVars, kbVars>>

\* (mutant) cmos_read without io_wait
CmosIndexNoWait ==
    /\ cmdPc = "index"
    /\ rtcReg' = ClockRegs(cmd)[Len(rtcVals) + 1]
    /\ rtcIo' = Append(rtcIo, Op("out", CMOS_INDEX, rtcReg'))
    /\ cmdPc' = "data"
    /\ UNCHANGED <<shPc, shBuf, bootVars, mmioVars, cmd, cmdRuns, rtcVals, cmdOut, soundVars, vgaVars, rpiVars,
                   kbVars>>

\* cmos_read: outb(0x70, reg)
CmosIndex ==
    /\ cmdPc = "index"
    /\ rtcReg' = ClockRegs(cmd)[Len(rtcVals) + 1]
    /\ rtcIo' = Append(rtcIo, Op("out", CMOS_INDEX, rtcReg'))
    /\ cmdPc' = "wait"
    /\ UNCHANGED <<shPc, shBuf, bootVars, mmioVars, cmd, cmdRuns, rtcVals, cmdOut, soundVars, vgaVars, rpiVars,
                   kbVars>>

\* cmos_read: io_wait(), i.e. outb(0x80, 0)
CmosWait ==
    /\ cmdPc = "wait"
    /\ rtcIo' = Append(rtcIo, Op("out", POST_PORT, 0))
    /\ cmdPc' = "data"
    /\ UNCHANGED <<shPc, shBuf, bootVars, mmioVars, cmd, cmdRuns, rtcVals, rtcReg, cmdOut, soundVars, vgaVars,
                   rpiVars, kbVars>>

\* cmos_read: return inb(0x71), and the local = bcd2dec(...) of the caller;
\* Bytes[r] are the values register r of the chip may hold at this moment
CmosData(Bytes) ==
    /\ cmdPc = "data"
    /\ \E b \in Bytes[rtcReg] :
         /\ rtcIo' = Append(rtcIo, Op("in", CMOS_DATA, b))
         /\ rtcVals' = Append(rtcVals, bcd2dec(b))
    /\ cmdPc' = IF Len(rtcVals') = Len(ClockRegs(cmd)) THEN "print" ELSE "index"
    /\ UNCHANGED <<shPc, shBuf, bootVars, mmioVars, cmd, cmdRuns, rtcReg, cmdOut, soundVars, vgaVars, rpiVars,
                   kbVars>>

\* cmd_date, cmd_time: the locals are printed; vga_newline, vga_print_int2
\* (also as print_uint8_2digits) and vga_putchar of vga.c all go through
\* vga_putchar
CmdClockPrint ==
    /\ cmdPc = "print"
    /\ cmdOut' = ClockChars(cmd, rtcVals)
    /\ VGA_MEM' = vga_print(Console, cmdOut').mem
    /\ cursor_row' = vga_print(Console, cmdOut').row
    /\ cursor_col' = vga_print(Console, cmdOut').col
    /\ crtc' = vga_print(Console, cmdOut').crt
    /\ oob' = vga_print(Console, cmdOut').oob
    /\ cmdPc' = "idle"
    /\ UNCHANGED <<shPc, shBuf, bootVars, mmioVars, cmd, cmdRuns, rtcVals, rtcReg, rtcIo, current_color, vgaPc,
                   vgaLast, flashSaved, vgaOps, soundVars, rpiVars, kbVars>>

\* the dispatcher calls sound_play_sequence(arg) of sound_stub.c for the
\* command "note" with an argument
CmdNoteStub(Most) ==
    /\ platform = "rpi3"
    /\ cmdPc = "idle" /\ vgaPc = "idle" /\ kbPc = "idle"
    /\ cmdRuns < Most
    /\ cmdRuns' = cmdRuns + 1
    /\ cmd' = "note"
    /\ cmdOut' = <<>>
    /\ rtcVals' = <<>>
    /\ rtcIo' = <<>>
    /\ UNCHANGED <<cmdPc, rtcReg, shPc, shBuf, bootVars, mmioVars, soundVars, vgaVars, rpiVars, kbVars>>

-----------------------------------------------------------------------------
(* shell.c: shell_run and what it calls, and kernel_main of kernel.c.      *)

\* shell.c: #define BUF_SIZE 128
BUF_SIZE == 128

\* str_eq of shell.c
str_eq(a, b) == StrEqFrom(a, b, 0)

\* split_arg: the index of the first space of buf from index i on, 0 if none
RECURSIVE SpaceFrom(_, _)
SpaceFrom(buf, i) ==
    IF i > Len(buf) THEN 0
    ELSE IF buf[i] = 32 THEN i
    ELSE SpaceFrom(buf, i + 1)

\* split_arg returns a pointer (not NULL)
HasArg(buf) == SpaceFrom(buf, 1) # 0
\* the string split_arg returns
ArgOf(buf) == SubSeq(buf, SpaceFrom(buf, 1) + 1, Len(buf))
\* buf as split_arg leaves it: the command word
CmdWord(buf) ==
    IF HasArg(buf) THEN SubSeq(buf, 1, SpaceFrom(buf, 1) - 1) ELSE buf

\* static const color_entry_t color_table[]
color_table ==
    <<
       [name |-> <<98, 108, 97, 99, 107>>, code |-> 0],
       [name |-> <<98, 108, 117, 101>>, code |-> 1],
       [name |-> <<103, 114, 101, 101, 110>>, code |-> 2],
       [name |-> <<99, 121, 97, 110>>, code |-> 3],
       [name |-> <<114, 101, 100>>, code |-> 4],
       [name |-> <<109, 97, 103, 101, 110, 116, 97>>, code |-> 5],
       [name |-> <<98, 114, 111, 119, 110>>, code |-> 6],
       [name |-> <<103, 114, 101, 121>>, code |-> 7],
       [name |-> <<100, 97, 114, 107, 103, 114, 101, 121>>, code |-> 8],
       [name |-> <<108, 105, 103, 104, 116, 98, 108, 117, 101>>, code |-> 9],
       [name |-> <<108, 105, 103, 104, 116, 103, 114, 101, 101, 110>>, code |-> 10],
       [name |-> <<108, 105, 103, 104, 116, 99, 121, 97, 110>>, code |-> 11],
       [name |-> <<108, 105, 103, 104, 116, 114, 101, 100>>, code |-> 12],
       [name |-> <<108, 105, 103, 104, 116, 109, 97, 103, 101, 110, 116, 97>>, code |-> 13],
       [name |-> <<121, 101, 108, 108, 111, 119>>, code |-> 14],
       [name |-> <<119, 104, 105, 116, 101>>, code |-> 15] >>

\* cmd_color's table scan: index of the first matching entry, 0 if none
RECURSIVE ColorFrom(_, _)
ColorFrom(n, i) ==
    IF i > Len(color_table) THEN 0
    ELSE IF str_eq(n, color_table[i].name) THEN i
    ELSE ColorFrom(n, i + 1)

ColorIndex(n) == ColorFrom(n, 1)

\* the command words of shell_run, in the order of its if-chain
command_words ==
    <<
       [name |-> <<114, 101, 98, 111, 111, 116>>, cmd |-> "reboot"],
       [name |-> <<99, 108, 115>>, cmd |-> "cls"],
       [name |-> <<104, 101, 108, 112>>, cmd |-> "help"],
       [name |-> <<98, 101, 101, 112>>, cmd |-> "beep"],
       [name |-> <<110, 111, 116, 101>>, cmd |-> "note"],
       [name |-> <<99, 111, 108, 111, 114>>, cmd |-> "color"],
       [name |-> <<100, 97, 116, 101>>, cmd |-> "date"],
       [name |-> <<116, 105, 109, 101>>, cmd |-> "time"] >>

RECURSIVE CommandFrom(_, _)
CommandFrom(w, i) ==
    IF i > Len(command_words) THEN 0
    ELSE IF str_eq(w, command_words[i].name) THEN i
    ELSE CommandFrom(w, i + 1)

\* the branch shell_run takes for the line buf: a command, "unknown" for any
\* other non-empty word, "empty" when buf[0] is NUL after split_arg
CmdName(buf) ==
    IF CommandFrom(CmdWord(buf), 1) # 0
    THEN command_words[CommandFrom(CmdWord(buf), 1)].cmd
    ELSE IF CmdWord(buf) # <<>> THEN "unknown" ELSE "empty"

\* "Kernel# "
PROMPT == <<75, 101, 114, 110, 101, 108, 35, 32>>
\* "EXIGE OS [version 0.1]"
BANNER ==
    <<69, 88, 73, 71, 69, 32, 79, 83, 32, 91, 118, 101, 114, 115, 105, 111,
      110, 32, 48, 46, 49, 93>>
\* "Usage: color <name>  (e.g. color white)"
USAGE_COLOR ==
    <<85, 115, 97, 103, 101, 58, 32, 99, 111, 108, 111, 114, 32, 60, 110,
      97, 109, 101, 62, 32, 32, 40, 101, 46, 103, 46, 32, 99, 111, 108,
      111, 114, 32, 119, 104, 105, 116, 101, 41>>
\* "Unknown color name."
UNKNOWN_COLOR ==
    <<85, 110, 107, 110, 111, 119, 110, 32, 99, 111, 108, 111, 114, 32,
      110, 97, 109, 101, 46>>
\* "Unknown command. Type 'help' to list commands."
UNKNOWN_COMMAND ==
    <<85, 110, 107, 110, 111, 119, 110, 32, 99, 111, 109, 109, 97, 110,
      100, 46, 32, 84, 121, 112, 101, 32, 39, 104, 101, 108, 112, 39, 32,
      116, 111, 32, 108, 105, 115, 116, 32, 99, 111, 109, 109, 97, 110,
      100, 115, 46>>
\* the strings cmd_help prints, each followed by vga_newline(); the empty
\* one is the vga_newline() alone after the title
HELP_LINES ==
    <<
      <<65, 118, 97, 105, 108, 97, 98, 108, 101, 32, 99, 111, 109, 109, 97,
        110, 100, 115, 58>>,
      <<>>,
      <<32, 32, 114, 101, 98, 111, 111, 116, 32, 32, 58, 32, 114, 101, 115,
        116, 97, 114, 116, 32, 116, 104, 101, 32, 99, 111, 109, 112, 117,
        116, 101, 114>>,
      <<32, 32, 99, 108, 115, 32, 32, 32, 32, 32, 58, 32, 99, 108, 101, 97,
        114, 32, 116, 104, 101, 32, 115, 99, 114, 101, 101, 110>>,
      <<32, 32, 98, 101, 101, 112, 32, 32, 32, 32, 58, 32, 118, 105, 115,
        117, 97, 108, 32, 102, 108, 97, 115, 104, 32, 40, 115, 99, 114,
        101, 101, 110, 32, 98, 101, 108, 108, 41>>,
      <<32, 32, 110, 111, 116, 101, 32, 32, 32, 32, 58, 32, 112, 108, 97,
        121, 32, 110, 111, 116, 101, 115, 32, 40, 100, 111, 32, 114, 101,
        32, 109, 105, 32, 102, 97, 32, 115, 111, 108, 32, 108, 97, 32, 115,
        105, 41>>,
      <<32, 32, 99, 111, 108, 111, 114, 32, 32, 32, 58, 32, 99, 104, 97,
        110, 103, 101, 32, 116, 101, 120, 116, 32, 102, 111, 114, 101, 103,
        114, 111, 117, 110, 100, 32, 99, 111, 108, 111, 114>>,
      <<32, 32, 100, 97, 116, 101, 32, 32, 32, 32, 58, 32, 100, 105, 115,
        112, 108, 97, 121, 32, 99, 117, 114, 114, 101, 110, 116, 32, 100,
        97, 116, 101>>,
      <<32, 32, 116, 105, 109, 101, 32, 32, 32, 32, 58, 32, 100, 105, 115,
        112, 108, 97, 121, 32, 99, 117, 114, 114, 101, 110, 116, 32, 116,
        105, 109, 101>>,
      <<32, 32, 104, 101, 108, 112, 32, 32, 32, 32, 58, 32, 108, 105, 115,
        116, 32, 97, 118, 97, 105, 108, 97, 98, 108, 101, 32, 99, 111, 109,
        109, 97, 110, 100, 115>> >>

\* vga_newline(); vga_print(msg); vga_newline()
Say(k, msg) == vga_newline(vga_print(vga_newline(k), msg))
say_rpi3(u, msg) == vga_newline_rpi3(vga_print_rpi3(vga_newline_rpi3(u), msg))

\* (mutant) an unknown name selects colour 0
cmd_color_fallback(k, has, n) ==
    IF ~has THEN Say(k, USAGE_COLOR)
    ELSE IF ColorIndex(n) # 0
    THEN vga_set_color(k, color_table[ColorIndex(n)].code, 0)
    ELSE vga_set_color(Say(k, UNKNOWN_COLOR), 0, 0)

\* cmd_color(name); has is name != NULL
cmd_color(k, has, n) ==
    IF ~has THEN Say(k, USAGE_COLOR)
    ELSE IF ColorIndex(n) # 0
    THEN vga_set_color(k, color_table[ColorIndex(n)].code, 0)
    ELSE Say(k, UNKNOWN_COLOR)

cmd_color_rpi3(u, has, n) ==
    IF ~has THEN say_rpi3(u, USAGE_COLOR)
    ELSE IF ColorIndex(n) # 0
    THEN vga_set_color_rpi3(u, color_table[ColorIndex(n)].code, 0)
    ELSE say_rpi3(u, UNKNOWN_COLOR)

\* cmd_help: vga_newline(), then each string and a vga_newline() (the
\* console after a line is computed before the next line is applied to it)
RECURSIVE HelpFrom(_, _)
HelpFrom(k, i) ==
    IF i > Len(HELP_LINES) THEN k
    ELSE LET shown == vga_newline(vga_print(k, HELP_LINES[i]))
         IN  IF shown = shown THEN HelpFrom(shown, i + 1) ELSE shown
cmd_help(k) == HelpFrom(vga_newline(k), 1)

RECURSIVE HelpFromRpi3(_, _)
HelpFromRpi3(u, i) ==
    IF i > Len(HELP_LINES) THEN u
    ELSE LET sent == vga_newline_rpi3(vga_print_rpi3(u, HELP_LINES[i]))
         IN  IF sent = sent THEN HelpFromRpi3(sent, i + 1) ELSE sent
cmd_help_rpi3(u) == HelpFromRpi3(vga_newline_rpi3(u), 1)

\* the console when the branch c of shell_run has run on the line buf, as
\* far as the branch is console output alone (cmd_beep, cmd_date and
\* cmd_time of the PC build go on in steps of their own)
ShellConsole(c, buf, k) ==
    CASE c = "cls" -> vga_clear(k)
      [] c = "help" -> cmd_help(k)
      [] c = "color" -> cmd_color(k, HasArg(buf), ArgOf(buf))
      [] c = "unknown" -> Say(k, UNKNOWN_COMMAND)
      [] OTHER -> k

ShellSerial(c, buf, u) ==
    CASE c = "cls" -> vga_clear_rpi3(u)
      [] c = "help" -> cmd_help_rpi3(u)
      [] c = "color" -> cmd_color_rpi3(u, HasArg(buf), ArgOf(buf))
      [] c = "unknown" -> say_rpi3(u, UNKNOWN_COMMAND)
      [] c \in {"date", "time"} -> cmd_clock_rpi3(u)
      [] c = "beep" -> uart_puts(u, REVERSE_ON)
      [] OTHER -> u

\* the console becomes k (PC build) or u (Raspberry Pi build)
ShellShows(k, u) ==
    IF platform = "x86"
    THEN /\ VGA_MEM' = k.mem
         /\ cursor_row' = k.row /\ cursor_col' = k.col
         /\ current_color' = k.color
         /\ crtc' = k.crt
         /\ oob' = k.oob
         /\ UNCHANGED rpiVars
    ELSE /\ tx' = u.tx
         /\ term' = u.term
         /\ UNCHANGED <<uart, VGA_MEM, cursor_row, cursor_col, current_color,
                        crtc, oob>>

\* kernel_main after vga_init() and keyboard_init(): the banner, and
\* shell_run() is entered
KernelMain ==
    /\ shPc = "boot"
    /\ ShellShows(vga_newline(vga_print(Console, BANNER)),
                  vga_newline_rpi3(vga_print_rpi3(Fresh, BANNER)))
    /\ shPc' = "prompt"
    /\ UNCHANGED <<shBuf, bootVars, mmioVars, cmd, cmdPc, cmdRuns, rtcVals, rtcReg, rtcIo, cmdOut,
                   vgaPc, vgaLast, flashSaved, vgaOps, soundVars, kbVars>>

\* shell_run, top of the loop: vga_newline(); vga_print("Kernel# ")
ShellPrompt ==
    /\ shPc = "prompt"
    /\ ShellShows(vga_print(vga_newline(Console), PROMPT),
                  vga_print_rpi3(vga_newline_rpi3(Fresh), PROMPT))
    /\ shPc' = "read"
    /\ UNCHANGED <<shBuf, bootVars, mmioVars, cmd, cmdPc, cmdRuns, rtcVals, rtcReg, rtcIo, cmdOut,
                   vgaPc, vgaLast, flashSaved, vgaOps, soundVars, kbVars>>

\* the line keyboard_readline(buf, BUF_SIZE) stores when the characters of
\* line and then Enter are typed
Stored(line) ==
    IF Len(line) > BUF_SIZE - 1 THEN SubSeq(line, 1, BUF_SIZE - 1) ELSE line

\* keyboard_readline(buf, BUF_SIZE): the user types one of Lines and Enter;
\* the characters stored are echoed, and the newline
ShellRead(Lines, Most) ==
    /\ shPc = "read"
    /\ cmdRuns < Most
    /\ \E line \in Lines :
         /\ shBuf' = Stored(line)
         /\ ShellShows(vga_print(Console, Stored(line) \o <<10>>),
                       PutAllRpi3(Fresh, Stored(line) \o <<10>>))
    /\ shPc' = "dispatch"
    /\ UNCHANGED <<bootVars, mmioVars, cmd, cmdPc, cmdRuns, rtcVals, rtcReg, rtcIo, cmdOut,
                   vgaPc, vgaLast, flashSaved, vgaOps, soundVars, kbVars>>

\* the note command of the PC build calls sound_play_sequence(arg)
EnterSequence(arg, Garbage) ==
    /\ top' = "sound_play_sequence"
    /\ stack' = <<"seq_loop">>
    /\ str' = arg
    /\ \E g \in Garbage : token' = [i \in 0..TOKEN_MAX |-> g]
    /\ pit0' \in PitStarts
    /\ ticks' = ticks
    /\ freq_hz' = 0 /\ duration_ms' = 0
    /\ name' = <<>>
    /\ UNCHANGED <<pos, ti, divisor, tmp, dlyFrame, pitFrame, port61, latch,
                   histFrame>>

\* shell_run: split_arg and the if-chain, up to the return of the command or
\* to the first step a command takes on its own
ShellDispatch(Garbage) ==
    /\ shPc = "dispatch"
    /\ LET c == CmdName(shBuf)
           flash == c = "beep"
           k == ShellConsole(c, shBuf, Console)
       IN  /\ cmd' = c
           /\ ShellShows(IF flash THEN FlashPass(k) ELSE k,
                         ShellSerial(c, shBuf, Fresh))
           /\ vgaPc' = IF flash THEN "flash_hold" ELSE vgaPc
           /\ flashSaved' = IF flash /\ platform = "x86" THEN VGA_MEM
                            ELSE flashSaved
           /\ cmdPc' = IF c \in {"date", "time"} /\ platform = "x86"
                       THEN "index" ELSE "idle"
           \* cmd_reboot: outb(0x64, 0xFE) and the hlt loop; the watchdog
           \* and the wfe loop on the Raspberry Pi
           /\ shPc' = IF c = "reboot" THEN "reset" ELSE "cmd"
           /\ rtcIo' = IF c = "reboot" /\ platform = "x86"
                       THEN <<Op("out", KB_STATUS, 254)>> ELSE <<>>
           /\ IF c = "note" /\ HasArg(shBuf) /\ platform = "x86"
              THEN EnterSequence(ArgOf(shBuf), Garbage)
              ELSE UNCHANGED soundVars
    /\ cmdRuns' = cmdRuns + 1
    /\ rtcVals' = <<>>
    /\ cmdOut' = <<>>
    /\ UNCHANGED <<shBuf, bootVars, mmioVars, rtcReg, vgaLast, vgaOps, kbVars>>

\* the command returns and the loop of shell_run goes round
ShellReturn ==
    /\ shPc = "cmd"
    /\ cmdPc = "idle" /\ vgaPc = "idle"
    /\ Idle /\ top = "none"
    /\ shPc' = "prompt"
    /\ UNCHANGED <<shBuf, bootVars, mmioVars, cmd, cmdPc, cmdRuns, rtcVals, rtcReg, rtcIo, cmdOut,
                   soundVars, vgaVars, rpiVars, kbVars>>

-----------------------------------------------------------------------------
(* Inputs.                                                                 *)

\* ticks the counter may run on between two samples
FineSteps == {0, 11, 400, 65535}
CoarseSteps == {30000, 60000}

DelayFreqs == {0, 440}
DelayDurations == (0..MaxDelayMs) \cup {WrapMs}

\* (frequencies are explored up to 2^31 - 1)
ToneFreqs == {0, 1, 18, 19, 262, 440, 1193180, 1193181, 2147483647}
ToneDurations == {0, GAP_MS, NOTE_MS}

Strings(A, n) == UNION {[1..k -> A] : k \in 0..n}

NoteNames ==
    {notes[i].name : i \in 1..Len(notes)}
    \cup {<<>>, <<100>>, <<115, 111>>, <<100, 111, 120>>,
          <<115, 111, 108, 108>>, <<111, 100>>, <<120, 120>>}

SeqAlphabet == {32, 100, 111}
SeqTexts ==
    Strings(SeqAlphabet, MaxTextLen)
    \cup { <<100, 111, 32, 114, 101>>,                           \* "do re"
           <<32, 115, 111, 108, 32, 32, 120, 32>>,               \* " sol  x "
           <<100, 111, 100, 111, 100, 111, 100, 111, 32, 108, 97>>, \* "dodododo la"
           <<115, 111, 108, 108, 108, 108, 108, 108, 108>> }     \* "solllllll"
TokenGarbage == {0, 120}

\* the string of n characters c
RECURSIVE Rep(_, _)
Rep(c, n) == IF n = 0 THEN <<>> ELSE <<c>> \o Rep(c, n - 1)

\* the string of the n characters c, c + 1, ...
RECURSIVE Ramp(_, _)
Ramp(c, n) == IF n = 0 THEN <<>> ELSE Ramp(c, n - 1) \o <<c + n - 1>>

\* backspace, newline, carriage return, 'A', and a byte above 127
PutChars == {8, 10, 13, 65, 200}
PrintTexts ==
    { <<>>, Rep(10, VGA_HEIGHT - 1), Rep(65, VGA_WIDTH - 1), Rep(66, VGA_WIDTH),
      <<65, 10, 8, 13>>, Ramp(33, VGA_WIDTH + 1) }
\* r full rows of text, row i (from 1) made of the character 64 + i
RECURSIVE RowsText(_)
RowsText(r) ==
    IF r = 0 THEN <<>> ELSE RowsText(r - 1) \o Rep(64 + r, VGA_WIDTH)

\* a full screen of text, and a full screen and one character
FillTexts == { RowsText(VGA_HEIGHT), RowsText(VGA_HEIGHT) \o <<122>> }
FillChars == {10, 122}

\* the serial console: newline, backspace, 'A'; "", "A\n"
RpiChars == {8, 10, 65}
RpiTexts == { <<>>, <<65, 10>> }
\* colours: red, light grey, white, and indexes outside the table
RpiFgs == {4, 7, 15, 16, 255}
RpiBgs == {0, 1}

\* scan codes: 'a', 'b', backspace, enter, tab, the release of 'q', escape
\* (not in the table)
ScanCodes == {16, 48, 14, 28, 15, 158, 1}
\* status bytes of the PS/2 controller: output buffer empty (bit 0 clear) or
\* full, alone and with other flags set
StatusBytes == {0, 1, 28, 29}
\* the same without the other flags
ReadyBytes == {0, 1}
\* scan codes: 'a', backspace, enter, the release of 'a', F1 (not in the table)
EditCodes == {16, 14, 28, 144, 59}
\* what the console showed before the line: the prompt of the shell, alone
\* and at the end of a row
Prompts == { <<75, 101, 114, 110, 101, 108, 35, 32>>,
             Rep(45, VGA_WIDTH - 10) \o <<75, 101, 114, 110, 101, 108, 35, 32>> }
\* bytes from the terminal: CR, LF, BS, DEL, 'a', 'b', tab
UartBytes == {13, 10, 8, 127, 97, 98, 9}
\* sizes of the caller's buffer
ReadMaxes == {1, 3}

\* bytes in the registers of the clock chip: 59 in BCD, and a byte that is
\* not BCD
RtcBytes == [r \in 0..63 |-> {89, 250}]
\* the day and the hours take every value, the other registers hold 59, 12,
\* 99 and 20 in BCD
SweepBytes ==
    [r \in 0..63 |->
       IF r \in {7, 4} THEN 0..255
       ELSE IF r = 8 THEN {18}
       ELSE IF r = 9 THEN {153}
       ELSE IF r = 50 THEN {32}
       ELSE {89}]

\* arguments of vga_print_int2: the two-digit numbers, and the largest uint8_t
TwoDigitArgs == 0..99 \cup {255}
\* arguments of vga_print_int: 0, 7, 10, 65536, 10^9, 2^31, 2^32 - 1
UnsignedArgs ==
    { Zero32, U32Of(0, 7), U32Of(0, 10), U32Of(1, 0), U32Of(15258, 51712),
      U32Of(32768, 0), U32Of(65535, 65535) }
\* what the console showed before: nothing, a row less one cell, all rows
\* but the last and that less one cell
Befores ==
    { <<>>, Rep(45, VGA_WIDTH - 1),
      Rep(10, VGA_HEIGHT - 1) \o Rep(45, VGA_WIDTH - 1) }

\* arguments of vga_print_int among the other console calls: 0 and 2^31 - 1
PrintInts == {Zero32, U32Of(32767, 65535)}
PrintInt2s == {7, 255}
ColorArgs == {7, 255}
\* where .bss begins: at a multiple of 16 above 1 MiB, and 1, 8 and 15 bytes
\* after others
BssStarts == {1056768, 1056785, 1056808, 1056831}
\* ESP as the loader leaves it
LoaderEsps == {0, 31743}
\* values of the flag register: no bit, RXFE, TXFF, both, RXFF (bit 6), and
\* TXFE | RXFE (an idle UART)
FlagWords == {0, 16, 32, 48, 64, 144}
\* values of the data register: NUL, TAB, 'A', 0xFF, and TAB and CR with the
\* framing-error and overrun bits (8 and 11) above the byte
DataWords == {0, 9, 65, 255, 265, 2061}
\* characters sent: NUL, newline, 'A' and 0xFF
SentChars == {0, 10, 65, 255}
\* lines typed at the prompt
ShellLines ==
    {
      <<102, 111, 111>>, \* "foo"
      <<99, 111, 108, 111, 114, 32, 122, 122>>, \* "color zz"
      <<110, 111, 116, 101, 32, 32, 100, 111, 100, 111, 100, 111, 100, 111, 32>>, \* "note  dodododo "
      <<>>, \* ""
      <<99, 108, 115>>, \* "cls"
      <<99, 111, 108, 111, 114, 32, 114, 101, 100>>, \* "color red"
      <<110, 111, 116, 101, 32, 100, 111>>, \* "note do"
      <<114, 101, 98, 111, 111, 116>>, \* "reboot"
      <<116, 105, 109, 101>>, \* "time"
      <<98, 101, 101, 112>>, \* "beep"
      <<104, 101, 108, 112>>, \* "help"
      <<99, 111, 108, 111, 114>>  \* "color"
    }

\* the clock chip shows 23 in every register
ShellRtc == [r \in 0..63 |-> {35}]

\* what the firmware left behind: a blank screen with the cursor at the
\* origin, or text under every attribute value with the cursor elsewhere and
\* another register of the CRT controller selected
BlankScreen == [r \in 1..VGA_HEIGHT |-> BlankRow(DEFAULT_COLOR)]
PatternScreen ==
    [r \in 1..VGA_HEIGHT |->
       [c \in 1..VGA_WIDTH |->
          vga_entry(88, ((r - 1) * VGA_WIDTH + (c - 1)) % 256)]]
Boots ==
    { [mem |-> BlankScreen, crt |-> [index |-> 0, hi |-> 0, lo |-> 0]],
      [mem |-> PatternScreen, crt |-> [index |-> 10, hi |-> 3, lo |-> 207]] }

-----------------------------------------------------------------------------
(* vga_rpi3.c and keyboard_rpi3.c: the accesses to the PL011 registers.    *)

\* #define FR_TXFF (1 << 5) and #define FR_RXFE (1 << 4)
FR_TXFF == 32
FR_RXFE == 16
\* word & bit, for a bit that is a power of two
HasBit(word, bit) == (word \div bit) % 2 = 1

Mmio(o, r, v) == [op |-> o, reg |-> r, val |-> v]
\* the reads of the flag register so far that found the FIFO not ready
Spins == Len(mmOps)

mmioFrame == <<soundVars, vgaVars, kbVars, cmd, cmdPc, cmdRuns, rtcVals,
               rtcReg, rtcIo, cmdOut, shPc, shBuf, bootVars>>

\* uart_putchar(c) is called
UartPutchar(Chars) ==
    /\ platform = "rpi3" /\ mmPc = "idle"
    /\ mmChar' \in Chars
    /\ mmOps' = <<>>
    /\ mmRet' = -1
    /\ mmPc' = "tx_poll"
    /\ tx' = <<>>
    /\ UNCHANGED <<uart, term, mmioFrame>>

\* (mutant) the loop tests the flag of the other FIFO
UartTxPollOtherFlag(Flags) ==
    /\ mmPc = "tx_poll"
    /\ \E f \in Flags :
         /\ HasBit(f, FR_RXFE) => Spins < MaxPolls
         /\ mmOps' = Append(mmOps, Mmio("read", "FR", f))
         /\ mmPc' = IF HasBit(f, FR_RXFE) THEN "tx_poll" ELSE "tx_write"
    /\ UNCHANGED <<mmChar, mmRet, rpiVars, mmioFrame>>

\* while (*UART_FR & FR_TXFF);  one evaluation of the condition
UartTxPoll(Flags) ==
    /\ mmPc = "tx_poll"
    /\ \E f \in Flags :
         /\ HasBit(f, FR_TXFF) => Spins < MaxPolls
         /\ mmOps' = Append(mmOps, Mmio("read", "FR", f))
         /\ mmPc' = IF HasBit(f, FR_TXFF) THEN "tx_poll" ELSE "tx_write"
    /\ UNCHANGED <<mmChar, mmRet, rpiVars, mmioFrame>>

\* *UART_DR = (uint32_t)(uint8_t)c; uart_putchar returns
UartTxWrite ==
    /\ mmPc = "tx_write"
    /\ mmOps' = Append(mmOps, Mmio("write", "DR", mmChar % 256))
    /\ tx' = uart_putchar(Serial, mmChar).tx
    /\ term' = uart_putchar(Serial, mmChar).term
    /\ mmPc' = "idle"
    /\ UNCHANGED <<uart, mmChar, mmRet, mmioFrame>>

\* keyboard_getchar() is called
UartGetchar ==
    /\ platform = "rpi3" /\ mmPc = "idle"
    /\ mmOps' = <<>>
    /\ mmRet' = -1
    /\ mmPc' = "rx_poll"
    /\ UNCHANGED <<mmChar, rpiVars, mmioFrame>>

\* while (*UART_FR & FR_RXFE);  one evaluation of the condition
UartRxPoll(Flags) ==
    /\ mmPc = "rx_poll"
    /\ \E f \in Flags :
         /\ HasBit(f, FR_RXFE) => Spins < MaxPolls
         /\ mmOps' = Append(mmOps, Mmio("read", "FR", f))
         /\ mmPc' = IF HasBit(f, FR_RXFE) THEN "rx_poll" ELSE "rx_read"
    /\ UNCHANGED <<mmChar, mmRet, rpiVars, mmioFrame>>

\* return (char)(*UART_DR & 0xFF); the register holds one of Words
UartRxRead(Words) ==
    /\ mmPc = "rx_read"
    /\ \E w \in Words :
         /\ mmOps' = Append(mmOps, Mmio("read", "DR", w))
         /\ mmRet' = w % 256
    /\ mmPc' = "idle"
    /\ UNCHANGED <<mmChar, rpiVars, mmioFrame>>

-----------------------------------------------------------------------------
(* boot_x86.asm: the Multiboot header, the stack and _start.               *)

\* a + b, ~a and -a in 32 bits
Add32(a, b) ==
    Trunc32(U32Of(a.hi + b.hi + (a.lo + b.lo) \div U16, (a.lo + b.lo) % U16))
Not32(a) == U32Of(U16 - 1 - a.hi, U16 - 1 - a.lo)
Neg32(a) == Add32(Not32(a), U32Of(0, 1))

\* MULTIBOOT_MAGIC equ 0x1BADB002
MULTIBOOT_MAGIC == U32Of(7085, 45058)
\* MULTIBOOT_FLAGS equ 0x00
MULTIBOOT_FLAGS == Zero32

\* (mutant) the complement without the increment
MULTIBOOT_CHECKSUM_NOT == Not32(Add32(MULTIBOOT_MAGIC, MULTIBOOT_FLAGS))

\* MULTIBOOT_CHECKSUM equ -(MULTIBOOT_MAGIC + MULTIBOOT_FLAGS), of which dd
\* stores the low 32 bits
MULTIBOOT_CHECKSUM == Neg32(Add32(MULTIBOOT_MAGIC, MULTIBOOT_FLAGS))

\* dd w: four bytes, the least significant first
Dd(w) == <<w.lo % 256, w.lo \div 256, w.hi % 256, w.hi \div 256>>

\* the 32-bit word a loader reads at offset o of img (o counted from 0)
WordAt(img, o) ==
    U32Of(img[o + 4] * 256 + img[o + 3], img[o + 2] * 256 + img[o + 1])

\* align n: the next multiple of n, at or after a
AlignUp(a, n) == ((a + n - 1) \div n) * n

\* resb 16384
STACK_SIZE == 16384
\* align 16
STACK_ALIGN == 16

\* the boot stub runs before any driver is called
bootFrame == <<soundVars, vgaVars, rpiVars, kbVars, mmioVars,
               cmd, cmdPc, cmdRuns, rtcVals, rtcReg, rtcIo, cmdOut, shPc, shBuf>>

\* section .multiboot is opened with n bytes of the image before it
AsmSection(Pads) ==
    /\ bootPc = "off"
    /\ \E n \in Pads : image' = Rep(0, n)
    /\ bootPc' = "align"
    /\ UNCHANGED <<stack_top, esp, intr, bootMem, bootFrame>>

\* align 4
AsmAlign ==
    /\ bootPc = "align"
    /\ image' = image \o Rep(0, AlignUp(Len(image), 4) - Len(image))
    /\ bootPc' = "magic"
    /\ UNCHANGED <<stack_top, esp, intr, bootMem, bootFrame>>

\* dd MULTIBOOT_MAGIC
AsmMagic ==
    /\ bootPc = "magic"
    /\ image' = image \o Dd(MULTIBOOT_MAGIC)
    /\ bootPc' = "flags"
    /\ UNCHANGED <<stack_top, esp, intr, bootMem, bootFrame>>

\* dd MULTIBOOT_FLAGS
AsmFlags ==
    /\ bootPc = "flags"
    /\ image' = image \o Dd(MULTIBOOT_FLAGS)
    /\ bootPc' = "checksum"
    /\ UNCHANGED <<stack_top, esp, intr, bootMem, bootFrame>>

\* dd MULTIBOOT_CHECKSUM
AsmChecksum ==
    /\ bootPc = "checksum"
    /\ image' = image \o Dd(MULTIBOOT_CHECKSUM)
    /\ bootPc' = "bss"
    /\ UNCHANGED <<stack_top, esp, intr, bootMem, bootFrame>>

\* section .bss / align 16 / stack_bottom: resb 16384 / stack_top:, with
\* .bss beginning at one of Starts
AsmStack(Starts) ==
    /\ bootPc = "bss"
    /\ \E s \in Starts : stack_top' = AlignUp(s, STACK_ALIGN) + STACK_SIZE
    /\ bootPc' = "loaded"
    /\ UNCHANGED <<image, esp, intr, bootMem, bootFrame>>

\* the loader jumps to _start; it leaves ESP undefined and interrupts off
BootEntry(Esps) ==
    /\ bootPc = "loaded"
    /\ esp' \in Esps
    /\ intr' = FALSE
    /\ bootPc' = "mov"
    /\ UNCHANGED <<image, stack_top, bootMem, bootFrame>>

\* mov esp, stack_top
BootMov ==
    /\ bootPc = "mov"
    /\ esp' = stack_top
    /\ bootPc' = "push1"
    /\ UNCHANGED <<image, stack_top, intr, bootMem, bootFrame>>

\* push 0, twice: a push decrements ESP by 4 and then writes
BootPush ==
    /\ bootPc \in {"push1", "push2"}
    /\ esp' = esp - 4
    /\ bootMem' = Append(bootMem, <<esp - 4, 0>>)
    /\ bootPc' = IF bootPc = "push1" THEN "push2" ELSE "call"
    /\ UNCHANGED <<image, stack_top, intr, bootFrame>>

\* call kernel_main: the return address (-1 here) is pushed
BootCall ==
    /\ bootPc = "call"
    /\ esp' = esp - 4
    /\ bootMem' = Append(bootMem, <<esp - 4, -1>>)
    /\ bootPc' = "kernel_main"
    /\ UNCHANGED <<image, stack_top, intr, bootFrame>>

\* kernel_main returns, should it ever: ret pops the return address; the
\* interrupt flag is as kernel_main left it
BootReturn ==
    /\ bootPc = "kernel_main"
    /\ esp' = esp + 4
    /\ intr' \in BOOLEAN
    /\ bootPc' = "cli"
    /\ UNCHANGED <<image, stack_top, bootMem, bootFrame>>

\* cli
BootCli ==
    /\ bootPc = "cli"
    /\ intr' = FALSE
    /\ bootPc' = "hlt"
    /\ UNCHANGED <<image, stack_top, esp, bootMem, bootFrame>>

\* .hang: hlt
BootHlt ==
    /\ bootPc = "hlt"
    /\ bootPc' = "halted"
    /\ UNCHANGED <<image, stack_top, esp, intr, bootMem, bootFrame>>

\* a non-maskable interrupt ends the halt at the next instruction
BootWake ==
    /\ bootPc = "halted"
    /\ bootPc' = "jmp"
    /\ UNCHANGED <<image, stack_top, esp, intr, bootMem, bootFrame>>

\* (mutant) the jump is not taken
BootJmpFalls ==
    /\ bootPc = "jmp"
    /\ bootPc' = "past"
    /\ UNCHANGED <<image, stack_top, esp, intr, bootMem, bootFrame>>

\* jmp .hang
BootJmp ==
    /\ bootPc = "jmp"
    /\ bootPc' = "hlt"
    /\ UNCHANGED <<image, stack_top, esp, intr, bootMem, bootFrame>>

-----------------------------------------------------------------------------
(* Specifications.                                                         *)

InitSound ==
    /\ stack = <<>>
    /\ top = "none"
    /\ str = <<>> /\ pos = 0 /\ token = NoToken /\ ti = 0
    /\ name = <<>>
    /\ freq_hz = 0 /\ duration_ms = 0 /\ divisor = 0 /\ tmp = 0
    /\ ms = 0 /\ ticks_needed = Zero32 /\ prev = 0 /\ elapsed = Zero32
    /\ lo = 0 /\ hi = 0
    /\ port61 \in Port61Inits
    /\ pit0 \in PitStarts
    /\ ticks = Zero32
    /\ latch = -1
    /\ io = NoIo
    /\ ports = <<>>
    /\ calls = <<>>
    /\ playMark = 0

\* vga.c's static initialisers, over the cell buffer as it was left
InitVga(Firmware) ==
    /\ \E b \in Firmware : VGA_MEM = b.mem /\ crtc = b.crt
    /\ cursor_row = 0
    /\ cursor_col = 0
    /\ current_color = DEFAULT_COLOR
    /\ oob = FALSE
    /\ vgaPc = "idle"
    /\ vgaLast = Called("none", 0, 0, <<>>)
    /\ flashSaved = <<>>
    /\ vgaOps = 0

\* the UART as the firmware leaves it, and a terminal just opened: nothing
\* shown, cursor at the origin, default colour (fg = 0), normal video; `ink`
\* is the colour of the character shown last
InitRpi ==
    /\ uart = [cr |-> 0, icr |-> 0, ibrd |-> 0, fbrd |-> 0, lcrh |-> 0]
    /\ tx = <<>>
    /\ term = [esc |-> <<>>, fg |-> 0, ink |-> 0, reverse |-> FALSE,
               dirty |-> FALSE, home |-> TRUE]

\* no keyboard_readline yet
InitKbd ==
    /\ kbPc = "idle"
    /\ kbBuf = <<>> /\ kbMax = 0 /\ kbLen = 0 /\ kbChar = 0
    /\ kbRet = -1
    /\ kbOob = FALSE
    /\ kbTyped = <<>> /\ kbEcho = <<>>
    /\ kbStart = [row |-> 0, col |-> 0]
    /\ kbIn = <<NoRead, NoRead>>

\* no command yet
InitShell ==
    /\ cmd = "none" /\ cmdPc = "idle" /\ cmdRuns = 0
    /\ rtcVals = <<>> /\ rtcReg = 0 /\ rtcIo = <<>>
    /\ cmdOut = <<>>
    /\ shPc = "boot" /\ shBuf = <<>>
    /\ bootPc = "off" /\ image = <<>> /\ stack_top = 0 /\ esp = 0
    /\ intr = FALSE /\ bootMem = <<>>
    /\ mmPc = "idle" /\ mmChar = 0 /\ mmRet = -1 /\ mmOps = <<>>

\* sound.c has no access to the console: the specifications of the sound
\* driver never read VGA_MEM and carry it without its cells
Unmapped == <<>>

Init ==
    InitSound /\ InitRpi /\ InitKbd /\ InitShell /\ platform = "x86" /\ InitVga({[mem |-> Unmapped, crt |-> [index |-> 0, hi |-> 0, lo |-> 0]]})

\* the console is explored with the speaker hardware at rest
InitConsole ==
    /\ InitSound /\ InitRpi /\ InitKbd /\ InitShell /\ platform = "x86"
    /\ InitVga(Boots) /\ port61 = 0 /\ pit0 = 0

ToneSteps ==
    \/ PitLo \/ PitHi
    \/ DlyEntry \/ DlyFirst \/ DlyPoll \/ DlyAcc \/ DlyDone
    \/ StopIn \/ StopOut
    \/ PlayRest \/ PlayTone \/ PsdCtl \/ PsdLo \/ PsdHi
    \/ PlayGateIn \/ PlayGateOut \/ PlayRet

SeqSteps ==
    \/ NoteFound \/ NoteUnknown \/ NoteRet
    \/ SeqToken \/ SeqGap \/ SeqNext \/ SeqSkip \/ SeqEnd \/ SeqStore \/ SeqDrop

\* delay_ms under fine-grained sampling, reached through sound_play
NextDelay ==
    \/ CallPlay(DelayFreqs, DelayDurations)
    \/ Resume
    \/ PitLatch(FineSteps)
    \/ ToneSteps

SpecDelay == Init /\ [][NextDelay]_vars

\* the speaker gate while port 0x61 changes under the driver
GateFreqs == {0, 440}
GateDurations == {0, GAP_MS}

NextGate ==
    \/ CallPlay(GateFreqs, GateDurations)
    \/ Resume
    \/ CallStop
    \/ HwToggle61
    \/ PitLatch(CoarseSteps)
    \/ ToneSteps

SpecGate == Init /\ [][NextGate]_vars

\* the whole driver; the counter is sampled coarsely
Next ==
    \/ CallPlay(ToneFreqs, ToneDurations)
    \/ Resume
    \/ CallStop
    \/ CallNote(NoteNames)
    \/ CallSequence(SeqTexts, TokenGarbage)
    \/ PitLatch(CoarseSteps)
    \/ ToneSteps
    \/ SeqSteps

Spec == Init /\ [][Next]_vars

\* the console driver
NextVga ==
    \/ VgaInit
    \/ VgaClear
    \/ VgaPutchar(PutChars)
    \/ VgaPrint(PrintTexts)
    \/ VgaPrintInt(PrintInts)
    \/ VgaPrintInt2(PrintInt2s)
    \/ VgaSetColor(ColorArgs)
    \/ VgaFlashInvert
    \/ VgaFlashRestore

SpecVga == InitConsole /\ [][NextVga]_vars

\* the console driver of the Raspberry Pi build; the cell buffer does not
\* exist there
InitSerial ==
    /\ InitSound /\ InitRpi /\ InitKbd /\ InitShell /\ platform = "rpi3"
    /\ InitVga({[mem |-> Unmapped, crt |-> [index |-> 0, hi |-> 0, lo |-> 0]]})
    /\ port61 = 0 /\ pit0 = 0

NextRpi ==
    \/ RpiInit
    \/ RpiClear
    \/ RpiPutchar(RpiChars)
    \/ RpiPrint(RpiTexts)
    \/ RpiSetColor(RpiFgs, RpiBgs)
    \/ RpiFlashOn
    \/ RpiFlashOff

SpecRpi == InitSerial /\ [][NextRpi]_vars

\* the line editor of either build, after the console was initialised
\* (kernel.c calls vga_init and keyboard_init before shell_run)
InitLine ==
    \/ InitConsole /\ VGA_MEM = BlankScreen
    \/ InitSerial

NextKbd ==
    \/ KbdReadline(ReadMaxes)
    \/ KbdPoll(ReadyBytes)
    \/ KbdGetchar(ScanCodes)
    \/ KbdGetcharRpi(UartBytes)
    \/ KbdLine
    \/ KbdLineRpi

SpecKbd == InitLine /\ [][NextKbd]_vars

\* the PC build after vga_init and the output of one of Texts
InitAfter(Texts) ==
    /\ InitSound /\ InitRpi /\ InitKbd /\ InitShell /\ platform = "x86"
    /\ port61 = 0 /\ pit0 = 0
    /\ \E p \in Texts :
         LET blank == [mem |-> BlankScreen, row |-> 0, col |-> 0,
                       color |-> DEFAULT_COLOR,
                       crt |-> [index |-> 0, hi |-> 0, lo |-> 0], oob |-> FALSE]
             k == vga_print(vga_init(blank), p)
         IN  /\ VGA_MEM = k.mem
             /\ cursor_row = k.row /\ cursor_col = k.col
             /\ current_color = k.color
             /\ crtc = k.crt
             /\ oob = k.oob
    /\ vgaPc = "idle"
    /\ vgaLast = Called("none", 0, 0, <<>>)
    /\ flashSaved = <<>>
    /\ vgaOps = 0

\* the line editor of the PC build, after vga_init and a prompt
InitPrompt == InitAfter(Prompts)

NextPs2 ==
    \/ KbdReadline(ReadMaxes)
    \/ KbdPoll(StatusBytes)
    \/ KbdGetchar(EditCodes)
    \/ KbdLine

SpecPs2 == InitPrompt /\ [][NextPs2]_vars

\* the functions that print numbers and newlines, in either build
InitPrint == InitAfter(Befores) \/ InitSerial

NextPrint ==
    \/ PrintInt2(TwoDigitArgs)
    \/ PrintInt(UnsignedArgs)
    \/ Newline
    \/ Putchar({10})

SpecPrint == InitPrint /\ [][NextPrint]_vars

\* the commands of the shell that need the clock chip or the speaker
NextClock ==
    \/ CmdClock({"date", "time"}, MaxQueries)
    \/ CmosIndex
    \/ CmosWait
    \/ CmosData(RtcBytes)
    \/ CmdClockPrint
    \/ CmdNoteStub(MaxQueries)

SpecClock == InitLine /\ [][NextClock]_vars

\* the clock commands of the PC build, one register taking every byte
NextBcd ==
    \/ CmdClock({"date", "time"}, MaxSweeps)
    \/ CmosIndex
    \/ CmosWait
    \/ CmosData(SweepBytes)
    \/ CmdClockPrint

InitBlank == InitAfter({<<>>})

SpecBcd == InitBlank /\ [][NextBcd]_vars

\* kernel_main from the banner on: the shell, in either build; the hardware
\* and the drivers take their steps whenever they can
NextShell ==
    \/ KernelMain
    \/ ShellPrompt
    \/ ShellRead(ShellLines, MaxLines)
    \/ ShellDispatch(TokenGarbage)
    \/ ShellReturn
    \/ platform = "x86" /\ VgaFlashRestore
    \/ platform = "rpi3" /\ RpiFlashOff
    \/ CmosIndex
    \/ CmosWait
    \/ CmosData(ShellRtc)
    \/ CmdClockPrint
    \/ Resume
    \/ PitLatch(CoarseSteps)
    \/ ToneSteps
    \/ SeqSteps

\* the processor keeps executing and the counter keeps running: a command
\* that can take a step takes one, and returns to the loop when it is done;
\* the user need not type
Running ==
    \/ ShellReturn
    \/ Resume
    \/ PitLatch(CoarseSteps)
    \/ ToneSteps
    \/ SeqSteps

SpecShell == InitLine /\ [][NextShell]_vars /\ WF_vars(Running)

\* the console driver filling the screen
\* delay_ms(3600140), the longest delay whose tick count fits 32 bits
\* (4294967020), sampled every 32768 ticks: 131072 samples make 2^32 ticks
HourMs == WrapMs - 1
HalfWrap == U16 \div 2
HourSamples == 2 * U16

\* sound_play(0, HourMs) was called with the counter at 0, and delay_ms has
\* taken its first sample and k more in its loop, all HalfWrap ticks apart
HourInto(k) ==
    /\ stack = <<"dly_test", "play_ret">>
    /\ top = "sound_play"
    /\ str = <<>> /\ pos = 0 /\ token = NoToken /\ ti = 0
    /\ name = <<>>
    /\ freq_hz = 0 /\ duration_ms = HourMs /\ divisor = 0 /\ tmp = 0
    /\ ms = HourMs /\ ticks_needed = TicksNeeded(HourMs)
    /\ elapsed = U32Of(k \div 2, (k % 2) * HalfWrap)
    /\ ticks = U32Of(k \div 2, (k % 2) * HalfWrap)
    /\ pit0 = ((k + 1) % 2) * HalfWrap
    /\ prev = pit0
    /\ lo = pit0 % 256 /\ hi = pit0 \div 256
    /\ port61 = 0
    /\ latch = -1
    /\ io = [op |-> "in", port |-> PIT_CH0, val |-> pit0 \div 256,
             n |-> (k + 1) % 2]
    /\ ports = <<Op("in", SPKR_PORT, 0), Op("out", SPKR_PORT, 0),
                 Op("delay", 0, HourMs)>>
    /\ calls = <<PlayCall(0, HourMs)>>
    /\ playMark = 0

\* the driver at rest, or close to an hour into the long delay
InitHour ==
    /\ InitRpi /\ InitKbd /\ InitShell /\ platform = "x86"
    /\ InitVga({[mem |-> Unmapped, crt |-> [index |-> 0, hi |-> 0, lo |-> 0]]})
    /\ \/ InitSound /\ port61 = 0 /\ pit0 = 0
       \/ \E k \in (HourSamples - HourTail)..(HourSamples - 1) : HourInto(k)

NextHour ==
    \/ CallPlay({0}, {0})
    \/ Resume
    \/ PitLatch({HalfWrap})
    \/ PitLo
    \/ PitHi
    \/ DlyEntry
    \/ DlyFirst
    \/ DlyPoll
    \/ DlyAcc
    \/ DlyDone
    \/ StopIn
    \/ StopOut
    \/ PlayRest
    \/ PlayRet

\* the processor keeps executing, and the counter keeps counting
Sampling ==
    \/ PitLatch({HalfWrap}) \/ PitLo \/ PitHi
    \/ DlyEntry \/ DlyFirst \/ DlyPoll \/ DlyAcc \/ DlyDone

SpecHour == InitHour /\ [][NextHour]_vars /\ WF_vars(Sampling)

\* the register accesses of the Raspberry Pi build
NextUart ==
    \/ UartPutchar(SentChars)
    \/ UartTxPoll(FlagWords)
    \/ UartTxWrite
    \/ UartGetchar
    \/ UartRxPoll(FlagWords)
    \/ UartRxRead(DataWords)

SpecUart == InitSerial /\ [][NextUart]_vars

\* boot_x86.asm, from the assembler to the halt loop
NextBoot ==
    \/ AsmSection(0..MaxPad)
    \/ AsmAlign
    \/ AsmMagic
    \/ AsmFlags
    \/ AsmChecksum
    \/ AsmStack(BssStarts)
    \/ BootEntry(LoaderEsps)
    \/ BootMov
    \/ BootPush
    \/ BootCall
    \/ BootReturn
    \/ BootCli
    \/ BootHlt
    \/ BootWake
    \/ BootJmp

SpecBoot == InitConsole /\ [][NextBoot]_vars

NextFill ==
    \/ VgaClear
    \/ VgaPutchar(FillChars)
    \/ VgaPrint(FillTexts)
    \/ VgaSetColor(ColorArgs)

SpecFill == InitConsole /\ [][NextFill]_vars

-----------------------------------------------------------------------------
(* Vocabulary of the properties.                                           *)

Last(s) == s[Len(s)]
Done(t) == Idle /\ top = t
\* control is inside sound_play (its return position is pending)
InPlay == \E i \in 1..Len(stack) : stack[i] = "play_ret"
\* the port operations of the current sound_play call so far
PlayOps == SubSeq(ports, playMark + 1, Len(ports))
\* a value below 2^31 of the uint32_t e
Val(e) == e.hi * U16 + e.lo
\* the step of delay_ms that adds a delta to the accumulator
AccStep == At_("dly_acc") /\ stack' # stack
IsIn(o, p) == o.op = "in" /\ o.port = p
IsOut(o, p) == o.op = "out" /\ o.port = p

\* the note table read as a relation, without the C string comparison
Known(n) == \E i \in 1..Len(notes) : notes[i].name = n
FreqOf(n) == notes[CHOOSE i \in 1..Len(notes) : notes[i].name = n].freq

\* the text split at spaces, empty pieces dropped
RECURSIVE SplitFrom(_, _, _)
SplitFrom(s, i, cur) ==
    IF i > Len(s) THEN (IF cur = <<>> THEN <<>> ELSE <<cur>>)
    ELSE IF s[i] = 32
         THEN (IF cur = <<>> THEN <<>> ELSE <<cur>>) \o SplitFrom(s, i + 1, <<>>)
         ELSE SplitFrom(s, i + 1, Append(cur, s[i]))
Tokens(s) == SplitFrom(s, 1, <<>>)
Cut(t) == IF Len(t) > TOKEN_MAX THEN SubSeq(t, 1, TOKEN_MAX) ELSE t

\* what a note name is expected to cause: the lookup, the tone if the name is
\* known, the gap
NoteThenGap(n) ==
    <<NoteCall(n)>>
    \o (IF Known(n) THEN <<PlayCall(FreqOf(n), NOTE_MS)>> ELSE <<>>)
    \o <<PlayCall(0, GAP_MS)>>

RECURSIVE Expected(_, _)
Expected(toks, cut) ==
    IF toks = <<>> THEN <<>>
    ELSE NoteThenGap(IF cut THEN Cut(Head(toks)) ELSE Head(toks))
         \o Expected(Tail(toks), cut)

IsPlay(c) == c.fn = "sound_play"
DoRe == <<100, 111, 32, 114, 101>>

-----------------------------------------------------------------------------
(* C1: delay_ms(d_ms) returns only after the accumulated tick delta has    *)
(* reached d_ms * 1193, for every 32-bit d_ms.  Fails: the product is      *)
(* truncated to 32 bits, so delay_ms(3600141) waits for 917 ticks only.    *)
C1_ReturnsAfterTarget ==
    (ports # <<>> /\ Last(ports).op = "delay_ret")
        => ~Less(elapsed, WideTicks(ms))

\* what the code does guarantee: the truncated target is reached
DelayReachesTruncatedTarget ==
    (ports # <<>> /\ Last(ports).op = "delay_ret")
        => ~Less(elapsed, TicksNeeded(ms))

(* C2 as claimed: the delta added for the samples previous, new is         *)
(* previous - new if new < previous and previous + (65536 - new) otherwise.*)
(* Fails for equal samples, where the code adds 0 and not 65536.           *)
C2_DeltaLawAsClaimed ==
    [][AccStep =>
         Val(elapsed') = Val(elapsed)
            + (IF prev' < prev THEN prev - prev' ELSE prev + (65536 - prev'))]_vars

(* C2 amended: the delta added for the samples previous, new is            *)
(* previous - new if new <= previous (0 for equal samples) and             *)
(* previous + (65536 - new) if new > previous.                             *)
C2_DeltaLaw ==
    [][AccStep =>
         Val(elapsed') = Val(elapsed)
            + (IF prev' <= prev THEN prev - prev' ELSE prev + (65536 - prev'))]_vars

\* the boundary pair previous = 5, new = 65530 has been accumulated: delta 11
C2_Witness ==
    At_("dly_test") /\ prev = 65530 /\ elapsed = U32Of(0, 11)

(* C3: a tone of nonzero frequency performs, in this order and nothing     *)
(* else: control word 0xB6 to port 0x43, divisor low byte to 0x42, divisor *)
(* high byte to 0x42, read-and-set bits 0-1 of port 0x61, the delay, then  *)
(* read-and-clear bits 0-1 of port 0x61.                                   *)
C3_ToneOrder ==
    (At_("play_ret") /\ freq_hz # 0) =>
        /\ Len(PlayOps) = 9
        /\ PlayOps[1] = Op("out", 67, 182)
        /\ PlayOps[2] = Op("out", 66, divisor % 256)
        /\ PlayOps[3] = Op("out", 66, divisor \div 256)
        /\ IsIn(PlayOps[4], 97)
        /\ IsOut(PlayOps[5], 97) /\ PlayOps[5].val % 4 = 3
        /\ PlayOps[6] = Op("delay", 0, duration_ms)
        /\ PlayOps[7] = Op("delay_ret", 0, duration_ms)
        /\ IsIn(PlayOps[8], 97)
        /\ IsOut(PlayOps[9], 97) /\ PlayOps[9].val % 4 = 0

\* a note of a sequence has been played to its end
C3_Witness ==
    At_("play_ret") /\ freq_hz = 294 /\ top = "sound_play_sequence"

(* C4: every write to port 0x61 directly follows a read of port 0x61 and   *)
(* writes the value read with only bits 0 and 1 changed.                   *)
C4_GateReadModifyWrite ==
    [][(io' # io /\ IsOut(io', 97))
          => (IsIn(io, 97) /\ io'.val \div 4 = io.val \div 4)]_vars

\* the gate was closed on a register whose other bits were all set, and the
\* refresh bit has flipped since
C4_Witness ==
    IsOut(io, 97) /\ io.val = 252 /\ port61 = 236

(* C5: tone(0, d) disables the gate and then delays, and does nothing      *)
(* else: no write to port 0x42, no channel 2 control word to port 0x43,    *)
(* no write to port 0x61 with bit 0 or 1 set.                              *)
C5_RestIsPure ==
    /\ (At_("play_ret") /\ freq_hz = 0) =>
          /\ Len(PlayOps) = 4
          /\ IsIn(PlayOps[1], 97)
          /\ IsOut(PlayOps[2], 97) /\ PlayOps[2].val % 4 = 0
          /\ PlayOps[3] = Op("delay", 0, duration_ms)
          /\ PlayOps[4] = Op("delay_ret", 0, duration_ms)
    /\ (InPlay /\ freq_hz = 0 /\ Len(ports) > playMark) =>
          \/ IsIn(io, 97)
          \/ IsOut(io, 97) /\ io.val % 4 = 0
          \/ IsOut(io, 67) /\ io.val \div 64 # 2
          \/ IsIn(io, 64)

\* the 80 ms rest after a note is over, the counter having been sampled
C5_Witness ==
    At_("play_ret") /\ freq_hz = 0 /\ duration_ms = 80 /\ IsIn(io, 64)

(* C6: for every nonzero frequency the divisor written to port 0x42 (high  *)
(* byte * 256 + low byte) is 1193180 / frequency.  Fails for frequencies   *)
(* below 19 Hz, whose quotient does not fit the 16-bit divisor.            *)
C6_DivisorIsQuotient ==
    (At_("play_ret") /\ freq_hz # 0) =>
        PlayOps[3].val * 256 + PlayOps[2].val = 1193180 \div freq_hz

\* what the code does program: the quotient cut to 16 bits
DivisorIsTruncatedQuotient ==
    (At_("play_ret") /\ freq_hz # 0) =>
        PlayOps[3].val * 256 + PlayOps[2].val = (1193180 \div freq_hz) % 65536

(* C7 as claimed: play_sequence("do re") makes the tone calls 262 Hz and   *)
(* 294 Hz, 450 ms each, with one 80 ms silence between them and none       *)
(* after the last note.  Fails: the code adds the silence after every note.*)
C7_DoReNoTrailingSilence ==
    (Done("sound_play_sequence") /\ str = DoRe) =>
        SelectSeq(calls, IsPlay)
            = <<PlayCall(262, 450), PlayCall(0, 80), PlayCall(294, 450)>>

(* C7 amended: play_sequence("do re") makes the tone calls 262 Hz and      *)
(* 294 Hz, 450 ms each, each followed by one 80 ms silence: one silence    *)
(* between the notes and one after the last note.                          *)
C7_DoRe ==
    (Done("sound_play_sequence") /\ str = DoRe) =>
        SelectSeq(calls, IsPlay)
            = <<PlayCall(262, 450), PlayCall(0, 80),
                PlayCall(294, 450), PlayCall(0, 80)>>

C7_Witness ==
    Done("sound_play_sequence") /\ str = DoRe /\ Len(calls) = 6

(* C8 as claimed: every non-empty space-delimited token is passed to       *)
(* play_note once, in order, each followed by one 80 ms rest.  Fails for   *)
(* a token longer than 7 characters, of which play_note gets the first 7.  *)
C8_TokensAsClaimed ==
    Done("sound_play_sequence") => calls = Expected(Tokens(str), FALSE)

(* C8 amended: every non-empty space-delimited token, cut to its first 7   *)
(* characters, is passed to play_note once, in order, each followed by one *)
(* 80 ms rest (also when it is no known note); empty tokens cause no call. *)
C8_Tokens ==
    Done("sound_play_sequence") => calls = Expected(Tokens(str), TRUE)

\* " sol  x ": leading, doubled and trailing spaces, a note and an unknown name
C8_Witness ==
    /\ Done("sound_play_sequence")
    /\ str = <<32, 115, 111, 108, 32, 32, 120, 32>>
    /\ Len(calls) = 5

(* C9: play_note plays a tone only for a name equal to a table entry, and  *)
(* then that entry's frequency for 450 ms; for any other name (a prefix or *)
(* an extension of an entry included) it touches no port, does not delay   *)
(* and returns.                                                            *)
C9_NoteExactMatch ==
    Done("sound_note") =>
        IF Known(name)
        THEN /\ calls = <<NoteCall(name), PlayCall(FreqOf(name), 450)>>
             /\ Len(ports) = 9
        ELSE /\ calls = <<NoteCall(name)>>
             /\ ports = <<>>
             /\ io = NoIo

\* "so", a proper prefix of "sol", was looked up and ignored
C9_Witness ==
    Done("sound_note") /\ name = <<115, 111>> /\ io = NoIo

(* C10: framebuffer console: in every state reached by init, clear,        *)
(* put_char, print, print_unsigned, print_two_digit, set_color and flash   *)
(* the cursor is a valid cell, 0 <= cursor_row <= 24 and                   *)
(* 0 <= cursor_col <= 79, and no cell write fell outside the buffer.       *)
C10_CursorValid ==
    /\ cursor_row >= 0 /\ cursor_row <= 24
    /\ cursor_col >= 0 /\ cursor_col <= 79
    /\ ~oob

\* a character written in the last cell has scrolled the screen: the cursor
\* is at the start of the last row and the row above ends with the character
C10_Witness ==
    /\ cursor_row = 24 /\ cursor_col = 0
    /\ VGA_MEM[24][80] = vga_entry(65, 7)
    /\ VGA_MEM[25][1] = vga_entry(32, 7)


-----------------------------------------------------------------------------
(* Vocabulary of the console properties.                                   *)

Char(e) == e % 256
Attr(e) == e \div 256
\* a character that vga_putchar writes into a cell
Printable(c) == c \notin {0, 8, 10, 13}
AllPrintable(t) == \A i \in 1..Len(t) : Printable(t[i])
\* a cleared screen with the cursor at the origin
BlankAtOrigin ==
    /\ cursor_row = 0 /\ cursor_col = 0
    /\ \A r \in 1..VGA_HEIGHT, c \in 1..VGA_WIDTH : Char(VGA_MEM[r][c]) = 32
\* this step is the call of fn with these arguments, from call to return
CallStep(fn, n, m, s) ==
    vgaOps' = vgaOps + 1 /\ vgaPc' = "idle" /\ vgaLast' = Called(fn, n, m, s)
\* this step is the call vga_print(t), i.e. vga_putchar for each character
PrintStep(t) == CallStep("vga_print", 0, 0, t)

(* C11: framebuffer console: 81 printable characters written from the      *)
(* origin of a cleared screen leave the cursor at row 1, column 1, row 0   *)
(* holds the first 80 characters in order, the 81st is at the start of     *)
(* row 1 and nothing else has changed (no scroll).                         *)
C11_WrapToNextRow ==
    [][\A t \in PrintTexts :
         (Len(t) = VGA_WIDTH + 1 /\ AllPrintable(t) /\ BlankAtOrigin
            /\ PrintStep(t))
         => /\ cursor_row' = 1 /\ cursor_col' = 1
            /\ \A c \in 1..VGA_WIDTH :
                 VGA_MEM'[1][c] = vga_entry(t[c], current_color)
            /\ VGA_MEM'[2][1] = vga_entry(t[VGA_WIDTH + 1], current_color)
            /\ \A c \in 2..VGA_WIDTH : VGA_MEM'[2][c] = VGA_MEM[2][c]
            /\ \A r \in 3..VGA_HEIGHT : VGA_MEM'[r] = VGA_MEM[r]]_vars

\* the 81 characters '!', '"', ... are on a screen that is blank elsewhere
C11_Witness ==
    /\ cursor_row = 1 /\ cursor_col = 1
    /\ \A c \in 1..VGA_WIDTH : Char(VGA_MEM[1][c]) = 32 + c
    /\ Char(VGA_MEM[2][1]) = 32 + VGA_WIDTH + 1
    /\ \A c \in 2..VGA_WIDTH : Char(VGA_MEM[2][c]) = 32
    /\ \A r \in 3..VGA_HEIGHT, c \in 1..VGA_WIDTH : Char(VGA_MEM[r][c]) = 32


\* the rows of the screen that show something else than spaces
VisibleRows ==
    {r \in 1..VGA_HEIGHT : \E c \in 1..VGA_WIDTH : Char(VGA_MEM[r][c]) # 32}

(* C12 as claimed: 2001 printable characters written from the origin of a  *)
(* cleared screen leave exactly one visible row of content.                *)
C12_OneVisibleRow ==
    [][\A t \in FillTexts :
         (Len(t) = VGA_WIDTH * VGA_HEIGHT + 1 /\ AllPrintable(t)
            /\ BlankAtOrigin /\ PrintStep(t))
         => Cardinality(VisibleRows') = 1]_vars

(* C12: framebuffer console: 2001 printable characters written from the    *)
(* origin of a cleared screen scroll exactly one row off: rows 0..23 hold  *)
(* the characters 81..2000 in order, row 24 holds the 2001st character     *)
(* followed by spaces, and the cursor is at row 24, column 1.              *)
C12_OneRowScrolledOff ==
    [][\A t \in FillTexts :
         (Len(t) = VGA_WIDTH * VGA_HEIGHT + 1 /\ AllPrintable(t)
            /\ BlankAtOrigin /\ PrintStep(t))
         => /\ cursor_row' = VGA_HEIGHT - 1 /\ cursor_col' = 1
            /\ \A r \in 1..(VGA_HEIGHT - 1), c \in 1..VGA_WIDTH :
                 VGA_MEM'[r][c] = vga_entry(t[r * VGA_WIDTH + c], current_color)
            /\ VGA_MEM'[VGA_HEIGHT][1] =
                 vga_entry(t[VGA_WIDTH * VGA_HEIGHT + 1], current_color)
            /\ \A c \in 2..VGA_WIDTH :
                 VGA_MEM'[VGA_HEIGHT][c] = vga_entry(32, current_color)]_vars

\* the screen shows the rows 'B'..'Y' of the text and a 'z' on the last row
C12_Witness ==
    /\ cursor_row = VGA_HEIGHT - 1 /\ cursor_col = 1
    /\ \A r \in 1..(VGA_HEIGHT - 1), c \in 1..VGA_WIDTH :
         Char(VGA_MEM[r][c]) = 65 + r
    /\ Char(VGA_MEM[VGA_HEIGHT][1]) = 122
    /\ \A c \in 2..VGA_WIDTH : Char(VGA_MEM[VGA_HEIGHT][c]) = 32


\* this step is the call vga_putchar(c)
PutStep(c) == CallStep("vga_putchar", c, 0, <<>>)
\* vga_putchar(c) moves the cursor past the last row
PastLastRow(c) ==
    /\ cursor_row = VGA_HEIGHT - 1
    /\ c = 10 \/ (Printable(c) /\ cursor_col = VGA_WIDTH - 1)
\* the screen once vga_putchar(c) has written its cell, before any scroll
Written(c) ==
    IF Printable(c)
    THEN [VGA_MEM EXCEPT ![cursor_row + 1][cursor_col + 1] =
                            vga_entry(c, current_color)]
    ELSE VGA_MEM
\* the cells in which two screens differ
Changed(m, n) ==
    {rc \in (1..VGA_HEIGHT) \X (1..VGA_WIDTH) : m[rc[1]][rc[2]] # n[rc[1]][rc[2]]}
\* the cell vga_putchar(c) writes, if any
Target(c) ==
    IF Printable(c) THEN {<<cursor_row + 1, cursor_col + 1>>}
    ELSE IF c = 8 /\ cursor_col > 0 THEN {<<cursor_row + 1, cursor_col>>}
    ELSE {}

HwCursor(crt) == crt.hi * 256 + crt.lo
\* this step is a call that moves the cursor: vga_init, vga_clear,
\* vga_putchar, or a function that calls vga_putchar at least once
CursorStep ==
    /\ vgaOps' = vgaOps + 1
    /\ \/ vgaLast'.fn \in {"vga_init", "vga_clear", "vga_putchar",
                           "vga_print_int", "vga_print_int2"}
       \/ vgaLast'.fn = "vga_print" /\ vgaLast'.s # <<>>

(* C14: framebuffer console: after every cursor-moving operation (init,    *)
(* clear, every put_char, scrolling or not) the cursor registers 0x0E      *)
(* (high) and 0x0F (low) of the CRT controller, each selected through      *)
(* port 0x3D4 and then written through port 0x3D5, hold                    *)
(* cursor_row * 80 + cursor_col.                                           *)
C14_HwCursorTracks ==
    [][CursorStep =>
         /\ HwCursor(crtc') = cursor_row' * VGA_WIDTH + cursor_col'
         /\ crtc'.lo < 256 /\ crtc'.hi < 256
         /\ crtc'.index = 14]_vars

\* the software cursor is beyond position 255, where the firmware never
\* left it, and the registers hold it
C14_Witness ==
    /\ vgaOps > 0
    /\ cursor_row * VGA_WIDTH + cursor_col > 256
    /\ HwCursor(crtc) = cursor_row * VGA_WIDTH + cursor_col


(* C15: framebuffer console: set_color(fg, bg) sets the attribute of the   *)
(* subsequent writes to ((bg & 0x07) << 4) | (fg & 0x0F), bit 7 clear, and *)
(* changes no cell on screen.                                              *)
C15_ColorMasksBackground ==
    [][\A fg \in ColorArgs, bg \in ColorArgs :
         CallStep("vga_set_color", fg, bg, <<>>)
         => /\ current_color' = ((bg % 8) * 16) + (fg % 16)
            /\ current_color' < 128
            /\ VGA_MEM' = VGA_MEM]_vars

\* what the code does: the low four bits of bg are kept, bit 3 of bg becomes
\* bit 7 of the attribute; the cells and the cursor are left alone
ColorKeepsFourBackgroundBits ==
    [][\A fg \in ColorArgs, bg \in ColorArgs :
         CallStep("vga_set_color", fg, bg, <<>>)
         => /\ current_color' = ((bg % 16) * 16) + (fg % 16)
            /\ UNCHANGED <<VGA_MEM, cursor_row, cursor_col, crtc>>]_vars


\* the colour parameters under which a terminal shows light text on a dark
\* ground: reset (0), light grey (37), default foreground (39)
LightOnDark == {0, 37, 39}

(* C16: on both console variants init() called from any prior display      *)
(* state resets it to the baseline: content cleared, cursor at the origin, *)
(* attribute reset to light-on-dark.  On the serial variant: after init    *)
(* the terminal shows nothing, its cursor is at the origin and the colour  *)
(* it will use for the text that follows is not one selected before.       *)
C16_InitResetsTerminal ==
    [][CallStep("vga_init", 0, 0, <<>>)
         => /\ ~term'.dirty
            /\ term'.home
            /\ term'.fg \in LightOnDark]_vars

\* what the serial variant does: the screen is erased and the cursor sent
\* home, the UART is programmed, and the colour stays the one selected last
InitKeepsTerminalColour ==
    [][CallStep("vga_init", 0, 0, <<>>)
         => /\ ~term'.dirty /\ term'.home
            /\ term'.fg = term.fg
            /\ tx' = ERASE_HOME
            /\ uart' = [cr |-> 769, icr |-> 2047, ibrd |-> 26, fbrd |-> 3,
                        lcrh |-> 112]]_vars

\* the framebuffer variant of C16: every cell is a space under attribute
\* 0x07, the cursor is at the origin and current_color is 0x07
InitResetsFramebuffer ==
    [][CallStep("vga_init", 0, 0, <<>>)
         => /\ VGA_MEM' = BlankScreen
            /\ cursor_row' = 0 /\ cursor_col' = 0
            /\ current_color' = DEFAULT_COLOR]_vars


(* C17: framebuffer console: clear() called in any state leaves all 2000   *)
(* cells holding a space under the current attribute, the cursor at row 0, *)
(* column 0, and the current attribute unchanged.                          *)
C17_ClearBlanksAll ==
    [][CallStep("vga_clear", 0, 0, <<>>)
         => /\ \A r \in 1..VGA_HEIGHT, c \in 1..VGA_WIDTH :
                 VGA_MEM'[r][c] = vga_entry(32, current_color)
            /\ cursor_row' = 0 /\ cursor_col' = 0
            /\ current_color' = current_color]_vars

\* clear has returned under an attribute that is not the default one, with
\* the cursor moved before it: the last cell is blank under that attribute
C17_Witness ==
    /\ vgaLast.fn = "vga_clear"
    /\ vgaOps = 3
    /\ current_color = 247
    /\ cursor_row = 0 /\ cursor_col = 0
    /\ VGA_MEM[VGA_HEIGHT][VGA_WIDTH] = vga_entry(32, 247)


(* C18: framebuffer console: flash() is a round trip: during the hold      *)
(* every cell has the two nibbles of its attribute swapped and its         *)
(* character unchanged; when flash() returns every cell equals its value   *)
(* before the call; the cursor and the current attribute never change.     *)
C18_FlashRoundTrip ==
    [][/\ (vgaPc = "idle" /\ vgaPc' = "flash_hold")
          => /\ \A r \in 1..VGA_HEIGHT, c \in 1..VGA_WIDTH :
                  /\ Char(VGA_MEM'[r][c]) = Char(VGA_MEM[r][c])
                  /\ Attr(VGA_MEM'[r][c]) =
                       (Attr(VGA_MEM[r][c]) % 16) * 16 + (Attr(VGA_MEM[r][c]) \div 16)
             /\ UNCHANGED <<cursor_row, cursor_col, current_color>>
       /\ (vgaPc = "flash_hold" /\ vgaPc' = "idle")
          => /\ VGA_MEM' = flashSaved
             /\ UNCHANGED <<cursor_row, cursor_col, current_color>>]_vars

\* flash has returned over the screen that shows every attribute value
C18_Witness ==
    /\ vgaLast.fn = "vga_flash" /\ vgaPc = "idle"
    /\ VGA_MEM = PatternScreen
    /\ \A a \in 0..255 :
         \E r \in 1..VGA_HEIGHT, c \in 1..VGA_WIDTH : Attr(VGA_MEM[r][c]) = a



\* the line editor of the specification ----------------------------------

\* end-of-line and backspace characters of read_line
EndOfLine == {10, 13}
Backspace == {8, 127}

\* the line after the characters keys, from the line so far; Ordinary is the
\* set of the other characters that the editor takes
RECURSIVE Edited(_, _, _, _)
Edited(line, keys, max_len, Ordinary) ==
    IF keys = <<>> \/ Head(keys) \in EndOfLine THEN line
    ELSE IF Head(keys) \in Backspace
    THEN Edited(IF line = <<>> THEN line ELSE SubSeq(line, 1, Len(line) - 1),
                Tail(keys), max_len, Ordinary)
    ELSE IF Head(keys) \in Ordinary /\ Len(line) < max_len - 1
    THEN Edited(Append(line, Head(keys)), Tail(keys), max_len, Ordinary)
    ELSE Edited(line, Tail(keys), max_len, Ordinary)

\* every character that is neither end-of-line nor backspace is ordinary
AnyChar == 0..255
\* what each build takes: the serial build drops the control characters
Taken == IF platform = "x86" THEN 0..255 ELSE 32..255

\* number of characters of cs that are in S
Count(cs, S) == Cardinality({i \in 1..Len(cs) : cs[i] \in S})

\* keyboard_readline has returned
Returned == kbPc = "idle" /\ kbRet >= 0

\* what read_line promises about the line `line`
LineContract(line) ==
    /\ kbRet = Len(line)
    /\ 0 <= kbRet /\ kbRet <= kbMax - 1
    /\ SubSeq(kbBuf, 1, kbRet) = line
    /\ kbBuf[kbRet + 1] = 0
    /\ ~kbOob
    /\ Count(kbEcho, {10}) = 1 /\ kbEcho[Len(kbEcho)] = 10

(* C19: read_line(buffer, max_len) with max_len >= 1, on both variants and *)
(* for every input up to the first end-of-line: the returned n is the      *)
(* length of the line of the reference editor (every character other than  *)
(* end-of-line and backspace is ordinary), 0 <= n <= max_len - 1,          *)
(* buffer[0..n) is that line, buffer[n] = NUL, nothing is written at an    *)
(* index >= max_len, and exactly one newline is echoed, at end-of-line.    *)
C19_ReadLineIsReferenceEditor ==
    Returned => LineContract(Edited(<<>>, kbTyped, kbMax, AnyChar))

\* the same contract for the editor that takes what each build takes: on
\* the serial build the characters below 32 are not ordinary
ReadLineIsFilteringEditor ==
    Returned => LineContract(Edited(<<>>, kbTyped, kbMax, Taken))

\* a line with a tab was read on the framebuffer build and stored as typed
TabStoredOnX86 ==
    /\ Returned /\ platform = "x86" /\ kbMax = 3
    /\ kbTyped = <<97, 9, 10>> /\ kbRet = 2

\* the same line read on the serial build lost the tab
TabDroppedOnRpi3 ==
    /\ Returned /\ platform = "rpi3" /\ kbMax = 3
    /\ kbTyped = <<97, 9, 13>> /\ kbRet = 1

\* the characters typed before the end-of-line
Keys == IF kbTyped # <<>> /\ kbTyped[Len(kbTyped)] \in EndOfLine
        THEN SubSeq(kbTyped, 1, Len(kbTyped) - 1) ELSE kbTyped

\* the backspaces that end cs
RECURSIVE TrailingBackspaces(_)
TrailingBackspaces(cs) ==
    IF cs = <<>> \/ cs[Len(cs)] \notin Backspace THEN 0
    ELSE 1 + TrailingBackspaces(SubSeq(cs, 1, Len(cs) - 1))

\* the line ends with at least as many backspaces as characters were typed
\* before them
ErasedAll ==
    LET k == TrailingBackspaces(Keys)
    IN  k >= Count(SubSeq(Keys, 1, Len(Keys) - k), 0..255 \ Backspace)

\* read_line handles a backspace while the line is empty
BackspaceOnEmpty == kbPc = "got" /\ kbChar \in Backspace /\ kbLen = 0

(* C20: read_line, both variants: when the backspaces typed are at least   *)
(* as many as the characters typed before them the line ends empty and the *)
(* returned length is 0; the length is never negative; a backspace on an   *)
(* empty buffer changes neither the buffer nor the console.                *)
C20_BackspaceIdempotent ==
    /\ [](kbLen >= 0 /\ (Returned /\ ErasedAll => kbRet = 0 /\ kbBuf[1] = 0))
    /\ [][BackspaceOnEmpty
            => UNCHANGED <<kbBuf, kbLen, kbEcho, vgaVars, rpiVars>>]_vars

\* "ab", three backspaces and end-of-line gave the empty line
C20_Witness ==
    /\ Returned /\ kbRet = 0 /\ kbMax = 3
    /\ Len(kbTyped) = 6
    /\ SubSeq(kbTyped, 1, 2) = <<97, 98>>
    /\ \A i \in 3..5 : kbTyped[i] \in Backspace
    /\ kbEcho # <<10>>



\* keyboard_readline is waiting for a character
Reading == kbPc \in {"getchar", "data"} /\ kbRet = -1

\* the cell that is i cells after the cell where the line began
CellAfterStart(i) ==
    LET n == kbStart.row * VGA_WIDTH + kbStart.col + i
    IN  VGA_MEM[(n \div VGA_WIDTH) + 1][(n % VGA_WIDTH) + 1]

\* the screen shows the buffer from where the line began, and the cursor is
\* on the cell after it
LineShown ==
    /\ \A i \in 1..kbLen : Char(CellAfterStart(i - 1)) = kbBuf[i]
    /\ cursor_row * VGA_WIDTH + cursor_col
         = kbStart.row * VGA_WIDTH + kbStart.col + kbLen

(* C21: framebuffer variant, read_line: after any sequence of typed        *)
(* characters and backspaces the cells from the position where the line    *)
(* began show exactly the buffer and the cursor is on the cell just after  *)
(* them, for every line length up to max_len - 1, also when the echo has   *)
(* wrapped onto the next row.                                              *)
C21_BackspaceErasesOnScreen ==
    platform = "x86" /\ Reading => LineShown

\* the same for the lines that fit in the row where they began
LineShownWithinRow ==
    platform = "x86" /\ Reading /\ kbStart.col + kbMax - 1 < VGA_WIDTH
    => LineShown

\* two characters were typed at the end of a row and one was taken back: the
\* buffer holds one character, the screen still shows two and the cursor is
\* at the start of the next row
WrappedLineNotErased ==
    /\ platform = "x86" /\ Reading
    /\ kbStart.col = VGA_WIDTH - 2 /\ kbTyped = <<97, 97, 8>> /\ kbLen = 1
    /\ Char(CellAfterStart(1)) = 97
    /\ cursor_row = kbStart.row + 1 /\ cursor_col = 0

\* the serial build handles a backspace or delete byte
EraseByte == platform = "rpi3" /\ kbPc = "got" /\ kbChar \in Backspace

(* C22: serial variant, read_line: each backspace (0x08) or delete (0x7F)  *)
(* byte received while the buffer is non-empty removes the last stored     *)
(* character and transmits exactly the bytes BS, SPACE, BS in that order;  *)
(* when the buffer is empty nothing is transmitted and the buffer is       *)
(* unchanged.                                                              *)
C22_SerialEraseSequence ==
    [][EraseByte =>
         IF kbLen > 0
         THEN /\ kbLen' = kbLen - 1
              /\ SubSeq(kbBuf', 1, kbLen') = SubSeq(kbBuf, 1, kbLen - 1)
              /\ tx' = tx \o <<8, 32, 8>>
         ELSE UNCHANGED <<kbLen, kbBuf, tx, term>>]_vars

\* a delete byte took back the second of two characters, and a further
\* backspace on the then empty line after the first was taken back too
C22_Witness ==
    /\ platform = "rpi3" /\ Reading /\ kbMax = 3
    /\ kbTyped = <<97, 98, 127, 8, 8>>
    /\ kbLen = 0
    /\ tx = <<97, 98, 8, 32, 8, 8, 32, 8>>

\* keyboard_getchar has just returned on the PC build
GotChar == platform = "x86" /\ kbPc = "got"

(* C23: scan-code read_char: bytes are consumed until the first make code  *)
(* (bit 7 clear) whose entry in the 128-entry table is non-zero, and that  *)
(* entry is returned; release codes and make codes mapped to 0 are         *)
(* consumed and skipped; 0 is never returned; the data port 0x60 is read   *)
(* only after the status port 0x64 was read with bit 0 set.                *)
C23_ReadCharSkipsUnmapped ==
    /\ [](/\ Len(sc_azerty) = 128
          /\ GotChar => /\ kbIn[2].port = KB_DATA
                        /\ kbIn[2].val < 128
                        /\ kbChar = sc_azerty[kbIn[2].val + 1]
                        /\ kbChar # 0
          /\ kbIn[2].port = KB_DATA
               => kbIn[1].port = KB_STATUS /\ kbIn[1].val % 2 = 1)
    /\ [][platform = "x86" /\ kbPc = "data"
            => /\ kbIn'[2].port = KB_DATA
               /\ IF kbIn'[2].val >= 128 \/ sc_azerty[(kbIn'[2].val % 128) + 1] = 0
                  THEN kbPc' = "getchar" /\ UNCHANGED <<kbChar, kbTyped>>
                  ELSE kbPc' = "got"]_vars

\* 'a' was returned, then the release code of the key was consumed and
\* skipped, and the poll has found the next byte
C23_Witness ==
    /\ platform = "x86" /\ kbPc = "data"
    /\ kbTyped = <<97>> /\ kbChar = 97
    /\ kbIn = <<[port |-> KB_DATA, val |-> 144], [port |-> KB_STATUS, val |-> 29]>>



\* printing numbers ------------------------------------------------------

\* this call wrote the characters cs and nothing else: on the framebuffer as
\* put_char for each of them does, on the serial line as the bytes sent
Wrote(cs) ==
    IF platform = "x86"
    THEN /\ VGA_MEM' = vga_print(Console, cs).mem
         /\ cursor_row' = vga_print(Console, cs).row
         /\ cursor_col' = vga_print(Console, cs).col
    ELSE tx' = cs

IsDigit(c) == c \in 48..57

(* C24: on both console variants, for every n in 0..99,                    *)
(* print_two_digit(n) writes exactly two characters, both ASCII digits,    *)
(* whose decimal value 10 * first + second is n.                           *)
C24_TwoDigitsRoundTrip ==
    [][\A n \in 0..99 :
         CallStep("vga_print_int2", n, 0, <<>>)
         => \E d1 \in 48..57, d2 \in 48..57 :
              /\ 10 * (d1 - 48) + (d2 - 48) = n
              /\ Wrote(<<d1, d2>>)]_vars

\* 99 was printed on the last cell of a row of the framebuffer: the second
\* digit is on the next row
C24_Witness ==
    /\ platform = "x86" /\ vgaLast = Called("vga_print_int2", 99, 0, <<>>)
    /\ Char(VGA_MEM[1][VGA_WIDTH]) = 57 /\ Char(VGA_MEM[2][1]) = 57
    /\ cursor_row = 1 /\ cursor_col = 1

\* the number that the decimal digits ds denote, as hi * 65536 + lo with hi
\* as large as it takes
RECURSIVE ValueOf(_)
ValueOf(ds) ==
    IF ds = <<>> THEN Zero32
    ELSE LET v == ValueOf(SubSeq(ds, 1, Len(ds) - 1))
             low == v.lo * 10 + (ds[Len(ds)] - 48)
         IN  U32Of(v.hi * 10 + low \div U16, low % U16)

\* ds is the decimal representation of n
IsDecimalOf(ds, n) ==
    /\ ds # <<>>
    /\ \A i \in 1..Len(ds) : IsDigit(ds[i])
    /\ ds[1] = 48 => Len(ds) = 1
    /\ ValueOf(ds) = n

(* C25: on both console variants, for every unsigned 32-bit n,             *)
(* print_unsigned(n) writes exactly the decimal representation of n, most  *)
(* significant digit first and without leading zeros, "0" for n = 0; the   *)
(* index of its digit buffer never exceeds 10.                             *)
C25_UnsignedDecimal ==
    [][\A n \in UnsignedArgs :
         CallStep("vga_print_int", n.hi, n.lo, <<>>)
         => LET ds == IF platform = "x86"
                      THEN IF n = Zero32 THEN <<48>> ELSE Reverse(DigitBuf(n))
                      ELSE tx'
            IN  /\ IsDecimalOf(ds, n)
                /\ Wrote(ds)
                /\ Len(DigitBuf(n)) <= 10]_vars

\* 2^32 - 1 went over the serial line as 4294967295
C25_Witness ==
    /\ platform = "rpi3"
    /\ vgaLast = Called("vga_print_int", 65535, 65535, <<>>)
    /\ tx = <<52, 50, 57, 52, 57, 54, 55, 50, 57, 53>>

\* this step is the call newline()
NewlineStep == CallStep("vga_newline", 0, 0, <<>>)

(* C26: on both console variants newline() is put_char('\n'): from any     *)
(* console state the two calls give the same framebuffer and cursor on the *)
(* framebuffer variant and the same transmitted bytes on the serial        *)
(* variant.                                                                *)
C26_NewlineIsPutchar ==
    [][NewlineStep
         => IF platform = "x86"
            THEN /\ VGA_MEM' = vga_putchar(Console, 10).mem
                 /\ cursor_row' = vga_putchar(Console, 10).row
                 /\ cursor_col' = vga_putchar(Console, 10).col
            ELSE tx' = vga_putchar_rpi3(Fresh, 10).tx]_vars

\* the framebuffer half of it
NewlineIsPutcharOnFramebuffer ==
    [][NewlineStep /\ platform = "x86"
         => /\ VGA_MEM' = vga_putchar(Console, 10).mem
            /\ cursor_row' = vga_putchar(Console, 10).row
            /\ cursor_col' = vga_putchar(Console, 10).col
            /\ crtc' = vga_putchar(Console, 10).crt]_vars

\* on the serial line newline() sends CR CR LF where put_char('\n') sends
\* CR LF; the terminal ends in the same state
NewlineSendsOneMoreCR ==
    [][NewlineStep /\ platform = "rpi3"
         => /\ tx' = <<13, 13, 10>>
            /\ vga_putchar_rpi3(Fresh, 10).tx = <<13, 10>>
            /\ term' = vga_putchar_rpi3(Fresh, 10).term]_vars

\* newline() has returned on the serial build
NewlineOnSerial ==
    platform = "rpi3" /\ vgaLast.fn = "vga_newline" /\ tx = <<13, 13, 10>>



\* the clock commands ----------------------------------------------------

\* the port operations of reading registers regs, which gave the bytes bs
RECURSIVE ReadsOf(_, _)
ReadsOf(regs, bs) ==
    IF bs = <<>> THEN <<>>
    ELSE <<Op("out", CMOS_INDEX, Head(regs)), Op("out", POST_PORT, 0),
           Op("in", CMOS_DATA, Head(bs))>> \o ReadsOf(Tail(regs), Tail(bs))

\* port operation i of the current command is what the protocol has there
InProtocol(i) ==
    IF i % 3 = 1
    THEN rtcIo[i] = Op("out", CMOS_INDEX, ClockRegs(cmd)[(i + 2) \div 3])
    ELSE IF i % 3 = 2
    THEN rtcIo[i] = Op("out", POST_PORT, 0)
    ELSE IsIn(rtcIo[i], CMOS_DATA) /\ rtcIo[i].val \in 0..255

\* the bytes read from the data port by the current command
BytesRead == [i \in 1..(Len(rtcIo) \div 3) |-> rtcIo[3 * i].val]

\* a clock command of the PC build has all its values
ClockRead == platform = "x86" /\ cmd \in {"date", "time"} /\ cmdPc \in {"print", "idle"}

ValidBcd(b) == b \div 16 <= 9 /\ b % 16 <= 9

\* the two digits of a BCD byte, as characters
BcdChars(b) == <<48 + (b \div 16), 48 + (b % 16)>>

\* DD/MM/CCYY and HH:MM:SS of the bytes bs, in the order they were read
ClockText(c, bs) ==
    IF c = "date"
    THEN BcdChars(bs[1]) \o <<47>> \o BcdChars(bs[2]) \o <<47>>
           \o BcdChars(bs[4]) \o BcdChars(bs[3])
    ELSE BcdChars(bs[1]) \o <<58>> \o BcdChars(bs[2]) \o <<58>>
           \o BcdChars(bs[3])

(* C28: clock (PC): every byte b read from the chip is decoded as          *)
(* high_nibble(b) * 10 + low_nibble(b), without 8-bit overflow; for valid  *)
(* BCD the value is in 0..99, and date and time are printed as DD/MM/CCYY  *)
(* and HH:MM:SS with exactly two ASCII digits per field.                   *)
C28_BcdDecodeAndFormat ==
    /\ [][cmdPc = "data"
            => LET b == rtcIo'[Len(rtcIo')].val
                   v == rtcVals'[Len(rtcVals')]
               IN  /\ v = (b \div 16) * 10 + (b % 16)
                   /\ v < 256
                   /\ ValidBcd(b) => v \in 0..99]_vars
    /\ [][cmdPc = "print" /\ (\A i \in 1..Len(BytesRead) : ValidBcd(BytesRead[i]))
            => /\ cmdOut' = <<10>> \o ClockText(cmd, BytesRead) \o <<10>>
               /\ Len(ClockText(cmd, BytesRead))
                    = IF cmd = "date" THEN 10 ELSE 8
               /\ \A i \in 1..Len(ClockText(cmd, BytesRead)) :
                    IsDigit(ClockText(cmd, BytesRead)[i]) <=> i \notin {3, 6}
               /\ VGA_MEM' = vga_print(Console, cmdOut').mem
               /\ cursor_row' = vga_print(Console, cmdOut').row
               /\ cursor_col' = vga_print(Console, cmdOut').col]_vars

\* the date 31/12/2099 is on the screen, read as the bytes 0x31, 0x12, 0x99
\* and 0x20
C28_Witness ==
    /\ platform = "x86" /\ cmd = "date" /\ cmdPc = "idle" /\ cmdRuns > 0
    /\ BytesRead = <<49, 18, 153, 32>>
    /\ [c \in 1..10 |-> Char(VGA_MEM[2][c])]
         = <<51, 49, 47, 49, 50, 47, 50, 48, 57, 57>>

\* this step is the whole of a date or time query of the ARM build
ClockStepOnArm ==
    platform = "rpi3" /\ cmdRuns' = cmdRuns + 1 /\ cmd' \in {"date", "time"}

\* the characters of cs that are not CR or LF
Visible(cs) == SelectSeq(cs, LAMBDA c : c \notin {10, 13})

(* C29: on the ARM build the date and time queries report the clock as     *)
(* unavailable: each prints the text "Not available on RPi3 (no RTC)" and  *)
(* nothing else on its line (no digit besides the one of the text itself), *)
(* accesses no clock-chip port, and returns to the dispatcher.             *)
C29_ClockUnavailableOnArm ==
    [][ClockStepOnArm
         => /\ Visible(tx') = NOT_AVAILABLE
            /\ Len(tx') > Len(NOT_AVAILABLE)
            /\ tx'[1] \in {10, 13} /\ tx'[Len(tx')] = 10
            /\ SelectSeq(tx', IsDigit) = <<51>>
            /\ rtcIo' = <<>> /\ rtcVals' = <<>> /\ rtcReg' = rtcReg
            /\ cmdPc' = "idle"]_vars

\* time was asked on the ARM build
C29_Witness ==
    /\ platform = "rpi3" /\ cmd = "time" /\ cmdPc = "idle" /\ cmdRuns > 0
    /\ Visible(tx) = NOT_AVAILABLE

\* this step is the note command, with an argument, of the ARM build
NoteStepOnArm == platform = "rpi3" /\ cmdRuns' = cmdRuns + 1 /\ cmd' = "note"

(* C30: on the ARM build a request for audio (the note command with an     *)
(* argument) is surfaced to the user as an explicit "not available"        *)
(* message on the console, not as a silent no-op.                          *)
C30_AudioUnavailableOnArm ==
    [][NoteStepOnArm => Visible(tx') # <<>> /\ tx' # tx]_vars

\* the note command came and went without a byte on the serial line
NoteIsSilentOnArm ==
    [][NoteStepOnArm => UNCHANGED <<tx, term, uart>> /\ cmdOut' = <<>>]_vars

\* the note command has run on the ARM build
NoteRanOnArm == platform = "rpi3" /\ cmd = "note" /\ cmdPc = "idle"



\* the dispatcher -----------------------------------------------------------

\* the words of the command table, and the colour names, as sets
CommandWords == {command_words[i].name : i \in 1..Len(command_words)}
ColourNames == {color_table[i].name : i \in 1..Len(color_table)}

\* the line is a command word that is not in the table
UnknownCommand(l) == CmdWord(l) # <<>> /\ CmdWord(l) \notin CommandWords
\* the line is a color command with a name that is not a colour
UnknownColour(l) ==
    CmdWord(l) = <<99, 111, 108, 111, 114>> /\ HasArg(l)
    /\ ArgOf(l) \notin ColourNames
\* the line is a note command none of whose names is a note
UnknownNotes(l) ==
    /\ CmdWord(l) = <<110, 111, 116, 101>> /\ HasArg(l)
    /\ \A i \in 1..Len(Tokens(ArgOf(l))) :
         ~Known(Tokens(ArgOf(l))[i]) /\ ~Known(Cut(Tokens(ArgOf(l))[i]))
Misused(l) == UnknownCommand(l) \/ UnknownColour(l) \/ UnknownNotes(l)

\* the diagnostic the dispatcher has for the line, <<>> if it has none
Diagnostic(l) ==
    IF UnknownCommand(l) THEN UNKNOWN_COMMAND
    ELSE IF UnknownColour(l) THEN UNKNOWN_COLOR
    ELSE <<>>

\* the characters of row r of the screen (r from 0), without the blanks at
\* its end
RECURSIVE Trimmed(_)
Trimmed(cs) ==
    IF cs # <<>> /\ cs[Len(cs)] = 32 THEN Trimmed(SubSeq(cs, 1, Len(cs) - 1))
    ELSE cs
RowChars(mem, r) == Trimmed([c \in 1..VGA_WIDTH |-> Char(mem[r + 1][c])])

\* the console attribute: current_color, and the colour and the video mode
\* of the terminal
Attribute == <<current_color, term.fg, term.reverse>>

\* the prompt is the last thing on the console: on the screen mem with the
\* cursor at row, col, or as the bytes sent
PromptOn(mem, row, col, sent) ==
    IF platform = "x86"
    THEN col = Len(PROMPT) /\ RowChars(mem, row) = Trimmed(PROMPT)
    ELSE Visible(sent) = PROMPT

\* the prompt is on the console and the next line is being read
PromptShown ==
    shPc = "read" /\ PromptOn(VGA_MEM, cursor_row, cursor_col, tx)

(* C31: a command word that is not in the table, a color command with an   *)
(* unknown colour name and a note command with unknown note names never    *)
(* end the dispatcher loop and never corrupt state: the console attribute  *)
(* stays as it was, no tone is sounded, at most a diagnostic text is       *)
(* printed, and the loop prints the prompt and reads the next line; the    *)
(* loop is left only by reboot.                                            *)
C31_MisuseKeepsLoop ==
    /\ [][shPc = "dispatch" /\ Misused(shBuf)
            => /\ shPc' = "cmd"
               /\ Attribute' = Attribute
               /\ IF platform = "x86"
                  THEN IF Diagnostic(shBuf) = <<>>
                       THEN VGA_MEM' = VGA_MEM /\ cursor_row' = cursor_row
                       ELSE /\ RowChars(VGA_MEM', cursor_row' - 1)
                                 = Diagnostic(shBuf)
                            /\ RowChars(VGA_MEM', cursor_row') = <<>>
                            /\ cursor_col' = 0
                  ELSE Visible(tx') = Diagnostic(shBuf)]_vars
    /\ [][shPc = "cmd" /\ Misused(shBuf)
            => /\ Attribute' = Attribute
               /\ VGA_MEM' = VGA_MEM /\ tx' = tx
               /\ port61' % 4 # 0 => port61' = port61
               /\ \A i \in 1..Len(calls') :
                    IsPlay(calls'[i]) => calls'[i].freq = 0
               /\ shPc' \in {"cmd", "prompt"}]_vars
    /\ (shPc = "cmd" /\ Misused(shBuf)) ~> (shPc = "prompt")
    /\ [][shPc = "prompt"
            => /\ shPc' = "read"
               /\ PromptOn(VGA_MEM', cursor_row', cursor_col', tx')]_vars
    /\ [](shPc \in {"boot", "prompt", "read", "dispatch", "cmd", "reset"})
    /\ [](shPc = "reset" => cmd = "reboot")
    /\ [][shPc = "reset" => shPc' = "reset"]_vars

\* after "color zz" the prompt is there again, below the diagnostic, in the
\* default attribute
C31_Witness ==
    /\ platform = "x86"
    /\ PromptShown /\ cmdRuns = 1
    /\ shBuf = <<99, 111, 108, 111, 114, 32, 122, 122>>
    /\ cmd = "color"
    /\ current_color = DEFAULT_COLOR
    /\ cursor_row >= 2
    /\ RowChars(VGA_MEM, cursor_row - 2) = UNKNOWN_COLOR


-----------------------------------------------------------------------------
(* The boot handoff of the PC build.                                       *)

\* the assembler is past the three dd of section .multiboot
HeaderEmitted == bootPc \notin {"off", "align", "magic", "flags", "checksum"}

\* at offset o of img: three consecutive words, the first 0x1BADB002, the
\* second 0, the three adding up to 0 in 32 bits, o a multiple of 4
HeaderAt(img, o) ==
    /\ o % 4 = 0
    /\ o + 12 <= Len(img)
    /\ WordAt(img, o) = U32Of(7085, 45058)
    /\ WordAt(img, o + 4) = U32Of(0, 0)
    /\ Add32(Add32(WordAt(img, o), WordAt(img, o + 4)), WordAt(img, o + 8))
         = U32Of(0, 0)

\* C32: the image holds, at an offset that is a multiple of 4, the three
\* consecutive 32-bit words magic = 0x1BADB002, flags = 0 and checksum, and
\* magic + flags + checksum is 0 modulo 2^32; the words end the section
C32_MultibootHeader ==
    HeaderEmitted =>
        /\ Len(image) >= 12
        /\ HeaderAt(image, Len(image) - 12)
        /\ WordAt(image, Len(image) - 4) = U32Of(58450, 20478)

\* the section began 5 bytes into the image and the header was padded to
\* offset 8
C32_Witness ==
    /\ bootPc = "loaded"
    /\ Len(image) = 20
    /\ HeaderAt(image, 8)


\* the halt loop: hlt, the halted processor, jmp .hang
HangLoop == {"hlt", "halted", "jmp"}

\* C33: when kernel_main returns, the next instruction is cli; cli clears the
\* interrupt flag and goes on to hlt; from then on the processor stays in
\* the loop with interrupts off, every wake-up from the halt reaches
\* jmp .hang and that goes back to hlt; the address after the jump is never
\* reached
C33_HaltLoopIsFinal ==
    /\ [][bootPc = "kernel_main" /\ bootPc' # "kernel_main"
            => bootPc' = "cli"]_vars
    /\ [][bootPc = "cli" => bootPc' = "hlt" /\ intr' = FALSE]_vars
    /\ [][(bootPc \in HangLoop) => bootPc' \in HangLoop /\ intr' = FALSE]_vars
    /\ [][bootPc = "halted" => bootPc' = "jmp"]_vars
    /\ [][bootPc = "jmp" => bootPc' = "hlt"]_vars
    /\ [](bootPc # "past")

\* the processor was woken from the halt after kernel_main returned with
\* the stack as _start had left it
C33_Witness ==
    /\ bootPc = "jmp"
    /\ ~intr
    /\ Len(bootMem) = 3
    /\ esp = stack_top - 8

\* the stack _start hands over: stack_top is a multiple of 16, above
\* 16384 reserved bytes, and the two pushes leave ESP 8 below it
StackAtCall ==
    bootPc = "call" =>
        /\ stack_top % STACK_ALIGN = 0
        /\ stack_top >= STACK_SIZE
        /\ esp = stack_top - 8
        /\ bootMem = <<<<stack_top - 4, 0>>, <<stack_top - 8, 0>>>>

\* C34: at call kernel_main, ESP is a multiple of 16 when stack_top is one
C34_EspAlignedAtCall ==
    bootPc = "call" /\ stack_top % 16 = 0 => esp % 16 = 0

\* what holds instead: ESP is 8 modulo 16 at the call
EspAtCallIsEightOff ==
    bootPc = "call" => esp % 16 = 8


-----------------------------------------------------------------------------
(* Sampling the counter.                                                   *)

\* control is inside delay_ms
InDelay == ports # <<>> /\ Last(ports).op = "delay"
\* a step of the driver at position l
StepAt(l) == At_(l) /\ stack' # stack
\* the port operation of this step, if it made one
Did(o, p) == io' # io /\ io'.op = o /\ io'.port = p

\* C35: pit0_read writes the latch command 0x00 to port 0x43, reads the low
\* byte from port 0x40 and then the high byte from port 0x40, three port
\* operations in all; the value delay_ms gets is high * 256 + low, the
\* count at the latch; inside delay_ms there is no other port operation:
\* no write to port 0x40 and no byte other than the latch command to 0x43
C35_SampleProtocol ==
    /\ [][StepAt("pit_latch")
            => /\ Did("out", 67) /\ io'.val = 0
               /\ Head(stack') = "pit_lo"
               /\ latch' = pit0']_vars
    /\ [][StepAt("pit_lo")
            => /\ Did("in", 64) /\ lo' = io'.val /\ lo' = pit0 % 256
               /\ Head(stack') = "pit_hi"]_vars
    /\ [][StepAt("pit_hi")
            => /\ Did("in", 64) /\ hi' = io'.val
               /\ hi' * 256 + lo' = pit0
               /\ stack' = Tail(stack)
               /\ Head(stack') \in {"dly_first", "dly_acc"}]_vars
    /\ [][StepAt("dly_first") \/ StepAt("dly_acc")
            => prev' = hi * 256 + lo /\ io' = io]_vars
    /\ [][InDelay /\ io' # io
            => /\ \/ StepAt("pit_latch") \/ StepAt("pit_lo") \/ StepAt("pit_hi")
               /\ io'.op = "out" => io'.port = 67 /\ io'.val = 0
               /\ io'.op = "in" => io'.port = 64]_vars
    /\ [][InDelay /\ pit0' # pit0 => StepAt("pit_latch")]_vars
    /\ [][InDelay /\ ports' # ports
            => ports' = Append(ports, Op("delay_ret", 0, ms))]_vars

\* a second sample was taken across the wrap of the counter: 5, then 65530
C35_Witness ==
    /\ InDelay
    /\ At_("dly_acc")
    /\ prev = 5
    /\ hi = 255 /\ lo = 250
    /\ pit0 = 65530
    /\ io = [op |-> "in", port |-> 64, val |-> 255, n |-> io.n]


-----------------------------------------------------------------------------
(* The accumulator of delay_ms.                                            *)

\* C36: at every test of the loop of delay_ms the accumulator is the number
\* of ticks gone by since the first sample, whatever the number of wraps of
\* the counter, when 0 to 65535 ticks go by between two samples
C36_AccumulatorIsElapsed ==
    InDelay /\ At_("dly_test") => elapsed = ticks

\* what holds instead: the accumulator is that number modulo 2^32
AccumulatorIsElapsedMod32 ==
    InDelay /\ At_("dly_test") => elapsed = Trunc32(ticks)

\* C37: delay_ms returns, for every argument, when 1 to 65535 ticks go by
\* between two samples
C37_DelayReturns ==
    InDelay ~> ~InDelay

\* what holds instead: a step of the loop adds to the accumulator or takes
\* it back below the value it had, past 2^32
AccumulatorGrowsOrWraps ==
    [][AccStep => \/ Less(elapsed, elapsed')
                  \/ Less(elapsed', elapsed) /\ ticks'.hi >= U16]_vars

\* delay_ms(0) takes one sample and returns without entering the loop
ZeroDelayTakesOneSample ==
    [][InDelay /\ ms = 0
         => /\ ~StepAt("dly_acc")
            /\ StepAt("dly_first") => Head(stack') = "dly_test"
            /\ StepAt("dly_test") => ~InDelay']_vars


-----------------------------------------------------------------------------
(* The speaker gate.                                                       *)

\* bits 0 and 1 of a byte of port 0x61
GateBits(v) == v % 4
\* the writes to port 0x61 of the current sound_play call
GateWrites == SelectSeq(PlayOps, LAMBDA o : IsOut(o, 97))
\* control is between the gate-enable write of sound_play and the
\* gate-disable write of the sound_stop it ends with
GateWindow ==
    /\ InPlay /\ freq_hz # 0
    /\ Len(GateWrites) = 1
    /\ GateBits(GateWrites[1].val) = 3
    /\ Head(stack) \in {"dly_entry", "dly_first", "dly_test", "dly_acc",
                        "pit_latch", "pit_lo", "pit_hi", "stop_in", "stop_out"}

\* C38: bits 0 and 1 of port 0x61 are clear whenever sound_play returns,
\* for every frequency, and whenever sound_play_sequence returns after at
\* least one token; only the gate-enable write of a tone of nonzero
\* frequency sets them, and once the driver has written the port they are
\* set only between that write and the gate-disable write of the same call
C38_GateNeverLeftOn ==
    /\ [][StepAt("play_ret") => GateBits(port61') = 0]_vars
    /\ [](Done("sound_play") => GateBits(port61) = 0)
    /\ [](Done("sound_play_sequence") /\ Tokens(str) # <<>>
            => GateBits(port61) = 0)
    /\ [][GateBits(port61') # GateBits(port61) /\ GateBits(port61') # 0
            => /\ StepAt("play_gate_out")
               /\ freq_hz # 0
               /\ GateBits(port61') = 3]_vars
    /\ []((GateBits(port61) # 0 /\ \E i \in 1..Len(ports) : IsOut(ports[i], 97))
            => GateWindow)

\* "do" was played with port 0x61 at 0xFF before: the sequence returned with
\* the port at 0xFC
C38_Witness ==
    /\ Done("sound_play_sequence")
    /\ port61 = 252
    /\ calls = <<NoteCall(<<100, 111>>), PlayCall(262, 450), PlayCall(0, 80)>>


-----------------------------------------------------------------------------
(* Tokens longer than the buffer.                                          *)

\* the offset at which the run of non-delimiters ending before offset p of
\* s begins (p itself when s[p - 1] is a delimiter or p = 0)
RECURSIVE RunStart(_, _)
RunStart(s, p) ==
    IF p = 0 \/ IsDelim(s[p]) THEN p ELSE RunStart(s, p - 1)
\* the token of s that ends before offset p
TokenBefore(s, p) == SubSeq(s, RunStart(s, p) + 1, p)
\* sound_play_sequence is about to pass a token to sound_note
TokenStep == StepAt("seq_loop") /\ stack' # <<>> /\ Head(stack') = "note_entry"

\* C39: the token index is in 0..7 at every step and token[] is written at
\* an index of at most 7; the name passed to sound_note is the token just
\* scanned, cut to its first 7 characters when it is longer, and the rest of
\* 80 ms follows it as after any token; a character after the 7th changes
\* neither the buffer nor the index and is stepped over, so that the next
\* token is scanned from an index of 0
C39_LongTokenTruncated ==
    /\ [](ti \in 0..7)
    /\ [][token' # token /\ ~Idle
            => /\ At_("seq_loop")
               /\ \E i \in 0..7 :
                    /\ i = ti
                    /\ \A j \in 0..7 : j # i => token'[j] = token[j]]_vars
    /\ [][TokenStep
            => /\ Len(TokenBefore(str, pos)) > 0
               /\ name' = IF Len(TokenBefore(str, pos)) > 7
                          THEN SubSeq(TokenBefore(str, pos), 1, 7)
                          ELSE TokenBefore(str, pos)
               /\ Len(name') = ti]_vars
    /\ [](At_("seq_next")
            => /\ Len(calls) >= 2
               /\ calls[Len(calls)] = PlayCall(0, 80)
               /\ \E i \in 1..(Len(calls) - 1) :
                    /\ calls[i] = NoteCall(name)
                    /\ \A j \in (i + 1)..(Len(calls) - 1) :
                         calls[j].fn = "sound_play" /\ calls[j].freq # 0)
    /\ [][At_("seq_loop") /\ ti = 7 /\ ~IsDelim(At(str, pos))
            => /\ pos' = pos + 1
               /\ UNCHANGED <<token, ti, stack, calls, ports>>]_vars
    /\ [][StepAt("seq_next") => ti' = 0]_vars

\* "dodododo la": sound_note got "dododod", and then "la"
C39_Witness ==
    /\ Done("sound_play_sequence")
    /\ str = <<100, 111, 100, 111, 100, 111, 100, 111, 32, 108, 97>>
    /\ calls = <<NoteCall(<<100, 111, 100, 111, 100, 111, 100>>),
                 PlayCall(0, 80),
                 NoteCall(<<108, 97>>), PlayCall(440, 450), PlayCall(0, 80)>>


-----------------------------------------------------------------------------
(* The FIFO handshake of the serial build.                                 *)

\* access i of the current call is to the data register
DataAccess(i) == mmOps[i].reg = "DR"
\* access i is a read of the flag register that found bit clear
FoundClear(i, bit) ==
    /\ i >= 1
    /\ mmOps[i] = Mmio("read", "FR", mmOps[i].val)
    /\ ~HasBit(mmOps[i].val, bit)

=============================================================================
